---- MODULE Spec2Model ----
(***************************************************************************)
(* The OmniUI artifact store (src/lib/artifacts/store.ts), the mutation    *)
(* applier (src/lib/artifacts/mutation-handler.ts), the facade hook        *)
(* (src/lib/hooks/use-artifact-system.ts) and the editors that write to    *)
(* the store, as one state machine.                                        *)
(*                                                                         *)
(* JavaScript values are records tagged by a field k, so that values of    *)
(* different shapes can be compared: undefined, null, strings, numbers,    *)
(* step objects, arrays, the {from, to} object of a move and the plan      *)
(* object {title, steps} that is an artifact's state.                      *)
(***************************************************************************)
EXTENDS Integers, Sequences, FiniteSets, TLC

\* ------------------------------------------------------------------ bounds
\* the highest version an artifact is taken to, the number of random ids drawn
\* and the last value of the clock
MaxVersion == 3
MaxIds == 2
MaxClock == 2

ArtifactIds == {"a1", "a2"}
\* the type each id is created with: one the registry knows, one it does not
TypeOf(id) == IF id = "a1" THEN "ExecutionPlan" ELSE "Roadmap"
RelTypes == {"references"}

\* ------------------------------------------------------------- JS values
Undef == [k |-> "undefined"]
Null == [k |-> "null"]
Str(s) == [k |-> "string", s |-> s]
Num(n) == [k |-> "number", n |-> n]
Bool(b) == [k |-> "boolean", b |-> b]
\* a step object; an absent property is Undef
Item(title, status, completed, id) ==
    [k |-> "item", title |-> title, status |-> status, completed |-> completed, id |-> id]
Arr(elems) == [k |-> "array", elems |-> elems]
Move(from, to) == [k |-> "move", from |-> from, to |-> to]
Plan(title, steps) == [k |-> "plan", title |-> title, steps |-> steps]

StepA == Item(Str("Design"), Str("pending"), Undef, Undef)
StepB == Item(Str("Build"), Str("complete"), Undef, Undef)
\* the state each id is created with: a plan with two steps, and an object
\* that has a title and no array
InitialState(id) ==
    IF id = "a1" THEN Plan(Str("T"), Arr(<<StepA, StepB>>)) ELSE Plan(Str("N"), Undef)

\* identifiers: a random one (shortId, uuid) is the n-th drawn, a time-based one
\* (`mut_${Date.now()}`) is the clock's value
RandomId(n) == [k |-> "id", g |-> "random", n |-> n]
TimeId(t) == [k |-> "id", g |-> "time", n |-> t]

\* ------------------------------------------------------ sequence helpers
RECURSIVE SelectSeqBy(_, _)
\* Array.prototype.filter with the predicate given as the set of kept values
SelectSeqBy(s, keep) ==
    IF s = <<>> THEN <<>>
    ELSE IF Head(s) \in keep THEN <<Head(s)>> \o SelectSeqBy(Tail(s), keep)
         ELSE SelectSeqBy(Tail(s), keep)

\* Array.prototype.slice(from, to) on 0-based indices, to exclusive
Slice(s, from, to) ==
    LET f == IF from < 0 THEN 0 ELSE IF from > Len(s) THEN Len(s) ELSE from
        t == IF to < 0 THEN 0 ELSE IF to > Len(s) THEN Len(s) ELSE to
    IN  IF t <= f THEN <<>> ELSE SubSeq(s, f + 1, t)

\* s[i] of a JS array: undefined outside the bounds
At(s, i) == IF i >= 0 /\ i < Len(s) THEN s[i + 1] ELSE Undef

Range(s) == {s[i] : i \in DOMAIN s}

\* ---------------------------------------------------------------- state
VARIABLES
    artifacts,      \* store.artifacts: id -> Artifact
    mutations,      \* store.mutations: the log
    relationships,  \* store.relationships
    hasHydrated,    \* store.hasHydrated
    storage,        \* the persisted document under 'omniui-artifacts'
    hydration,      \* the persist middleware's read: "pending", "done", "failed"
    timerArmed,     \* a fallback timer of useArtifactHydration is pending
    mounted,        \* useArtifactHydration has rendered in this session
    now,            \* Date.now()
    ids,            \* how many random ids (shortId, uuid) were drawn
    last            \* the last call and what it returned

vars == <<artifacts, mutations, relationships, hasHydrated, storage, hydration,
          timerArmed, mounted, now, ids, last>>

\* the store's data as one value, for the operators that model its actions
Store == [artifacts |-> artifacts, mutations |-> mutations,
          relationships |-> relationships, hasHydrated |-> hasHydrated]

NoRelated == [def |-> FALSE, ids |-> <<>>]
Related(s) == [def |-> TRUE, ids |-> s]

\* a Zod schema, by name: the registry's schemas are named by their type
Schema(name) == [k |-> "schema", name |-> name]
ZAny == Schema("z.any()")

\* ARTIFACT_SCHEMAS[key]: the registry's schema, or undefined
RegistryTypes == {"ExecutionPlan", "CommandResultPanel", "SystemStatusPanel"}
ARTIFACT_SCHEMAS(key) == IF key \in RegistryTypes THEN Schema(key) ELSE Undef

\* obj[id] = value on a Record<string, _>
Put(f, id, value) == [i \in (DOMAIN f) \cup {id} |-> IF i = id THEN value ELSE f[i]]
\* const { [id]: removed, ...rest } = obj
Without(f, id) == [i \in (DOMAIN f) \ {id} |-> f[i]]

\* ------------------------------------------------------- store actions
NewArtifact(id, type, state, schema, related, t) ==
    [id |-> id, type |-> type, state |-> state, schema |-> schema,
     schemaKey |-> Undef, version |-> 1, createdAt |-> t, updatedAt |-> t,
     relatedIds |-> related]

\* createArtifact: a new record under a freshly drawn id
createArtifact(S, id, type, state, schema, t) ==
    [S EXCEPT !.artifacts = Put(@, id, NewArtifact(id, type, state, schema, Related(<<>>), t))]

addArtifact(S, artifact) ==
    [S EXCEPT !.artifacts = Put(@, artifact.id, artifact)]

updateArtifactNoBump(S, id, newState, t) ==
    IF id \notin DOMAIN S.artifacts THEN S
    ELSE [S EXCEPT !.artifacts[id] = [@ EXCEPT !.state = newState, !.updatedAt = t]]

updateArtifact(S, id, newState, t) ==
    IF id \notin DOMAIN S.artifacts THEN S
    ELSE [S EXCEPT !.artifacts[id] =
              [@ EXCEPT !.state = newState, !.version = @ + 1, !.updatedAt = t]]

deleteArtifactAll(S, id) ==
    [S EXCEPT !.artifacts = IF id \in DOMAIN @ THEN Without(@, id) ELSE @,
              !.mutations = <<>>,
              !.relationships = SelectSeq(@, LAMBDA r : r.sourceId # id /\ r.targetId # id)]

deleteArtifactSourceOnly(S, id) ==
    [S EXCEPT !.artifacts = IF id \in DOMAIN @ THEN Without(@, id) ELSE @,
              !.mutations = SelectSeq(@, LAMBDA m : m.artifactId # id),
              !.relationships = SelectSeq(@, LAMBDA r : r.sourceId # id)]

deleteArtifact(S, id) ==
    [S EXCEPT !.artifacts = IF id \in DOMAIN @ THEN Without(@, id) ELSE @,
              !.mutations = SelectSeq(@, LAMBDA m : m.artifactId # id),
              !.relationships = SelectSeq(@, LAMBDA r : r.sourceId # id /\ r.targetId # id)]

getArtifact(S, id) == IF id \in DOMAIN S.artifacts THEN S.artifacts[id] ELSE Undef

\* addMutation: the record as given, with id and timestamp filled in when absent
addMutation(S, mutation, freshId, t) ==
    LET fullMutation ==
            [id |-> IF mutation.id # Undef THEN mutation.id ELSE freshId,
             artifactId |-> mutation.artifactId,
             operation |-> mutation.operation,
             path |-> mutation.path,
             value |-> mutation.value,
             previousValue |-> mutation.previousValue,
             timestamp |-> IF mutation.timestamp # Undef THEN mutation.timestamp ELSE Num(t),
             source |-> mutation.source]
    IN  [S EXCEPT !.mutations = Append(@, fullMutation)]

getMutations(S, artifactId) == SelectSeq(S.mutations, LAMBDA m : m.artifactId = artifactId)

\* ---------------------------------------------------- mutation-handler.ts
\* An intent's details: itemIndex (when hasIndex), property ("" when absent),
\* value (Undef when absent), condition (the "completed" predicate, or none)
Intent(type, hasIndex, itemIndex, property, value, condition) ==
    [type |-> type, hasIndex |-> hasIndex, itemIndex |-> itemIndex,
     property |-> property, value |-> value, condition |-> condition]

\* findArrayField: the name of the state's array field, "" for null; the plan
\* object is the only modelled state with an array-valued field
findArrayField(state) ==
    IF state.k = "plan" /\ state.steps.k = "array" THEN "steps" ELSE ""

\* `property in state` for the modelled shapes of state (an object)
HasProperty(state, property) ==
    CASE state.k = "plan" -> property \in {"title", "steps"} /\ state[property] # Undef
      [] state.k = "item" -> property \in {"title", "status", "completed", "id"}
                              /\ state[property] # Undef
      [] state.k = "move" -> property \in {"from", "to"}
      [] OTHER -> FALSE

\* the states on which validateMutation itself throws: findArrayField reads a
\* property of null, and `in` is applied to a primitive
ValidateThrows(state, intent) ==
    \/ state.k \in {"null", "undefined"}
    \/ /\ intent.type = "update_property"
       /\ intent.property # ""
       /\ state.k \in {"string", "number", "boolean"}

\* -1 is the last element
ResolveIndex(array, itemIndex) == IF itemIndex = -1 THEN Len(array) - 1 ELSE itemIndex

validateMutation(artifact, intent) ==
    LET state == artifact.state
        arrayField == findArrayField(state)
        array == state.steps.elems
    IN  CASE intent.type \in {"remove_item", "update_item"} ->
                 IF arrayField = "" THEN FALSE
                 ELSE IF intent.hasIndex /\ ~intent.condition
                      THEN LET index == ResolveIndex(array, intent.itemIndex)
                           IN  ~(index < 0 \/ index >= Len(array))
                      ELSE TRUE
          [] intent.type = "add_item" -> arrayField # ""
          [] intent.type = "update_property" ->
                 ~(intent.property # "" /\ ~HasProperty(state, intent.property))
          [] OTHER -> TRUE

createMutation(artifactId, operation, path, previousValue, source, n, t) ==
    [id |-> RandomId(n), artifactId |-> artifactId, operation |-> operation,
     path |-> path, value |-> Undef, previousValue |-> previousValue,
     timestamp |-> Num(t), source |-> source]

Failure == [success |-> FALSE, newState |-> Undef, mutation |-> Undef, drawn |-> 0]
Success(newState, mutation, drawn) ==
    [success |-> TRUE, newState |-> newState, mutation |-> mutation, drawn |-> drawn]

\* item.completed === true || item.status === 'complete'
Completed(item) == item.completed = Bool(TRUE) \/ item.status = Str("complete")

\* Array.prototype.splice start: negative counts from the end, clamped
SpliceStart(array, start) ==
    IF start < 0 THEN (IF Len(array) + start < 0 THEN 0 ELSE Len(array) + start)
    ELSE IF start > Len(array) THEN Len(array) ELSE start

\* const [item] = array.splice(from, 1); array.splice(to, 0, item)
MoveItem(array, from, to) ==
    LET f == SpliceStart(array, from)
        item == At(array, f)
        rest == Slice(array, 0, f) \o Slice(array, f + 1, Len(array))
        t == SpliceStart(rest, to)
    IN  Slice(rest, 0, t) \o <<item>> \o Slice(rest, t, Len(rest))

\* { ...item, [property]: value }; spreading undefined or null gives {}
SetItemProperty(item, property, value) ==
    LET base == IF item.k = "item" THEN item ELSE Item(Undef, Undef, Undef, Undef)
    IN  [base EXCEPT ![property] = value]

\* applyRemoveItem with a filter that stops at its first match
applyRemoveItemFirstMatch(artifact, intent, source, n, t) ==
    LET state == artifact.state
        arrayField == findArrayField(state)
        array == state.steps.elems
        index == ResolveIndex(array, intent.itemIndex)
        matches == {i \in DOMAIN array : Completed(array[i])}
        first == IF matches = {} THEN 0 ELSE CHOOSE i \in matches : \A j \in matches : i <= j
    IN  IF intent.condition
        THEN IF \E i \in DOMAIN array : array[i].k # "item" THEN Failure
             ELSE Success([state EXCEPT !.steps =
                               Arr(Slice(array, 0, first - 1) \o Slice(array, first, Len(array)))],
                          createMutation(artifact.id, "remove_item", <<arrayField>>,
                              Arr(IF first = 0 THEN <<>> ELSE <<array[first]>>),
                              source, n + 1, t),
                          1)
        ELSE IF ~intent.hasIndex
        THEN Success([state EXCEPT !.steps = Arr(array \o array)],
                     createMutation(artifact.id, "remove_item", <<arrayField>>, Undef,
                                    source, n + 1, t),
                     1)
        ELSE Success([state EXCEPT !.steps =
                          Arr(Slice(array, 0, index) \o Slice(array, index + 1, Len(array)))],
                     createMutation(artifact.id, "remove_item", <<arrayField>>,
                                    At(array, index), source, n + 1, t),
                     1)

applyRemoveItem(artifact, intent, source, n, t) ==
    LET state == artifact.state
        arrayField == findArrayField(state)
        array == state.steps.elems
        index == ResolveIndex(array, intent.itemIndex)
    IN  IF intent.condition
        THEN \* the predicate reads a property of each element: it throws on undefined and null
             IF \E i \in DOMAIN array : array[i].k # "item" THEN Failure
             ELSE Success([state EXCEPT !.steps =
                               Arr(SelectSeqBy(array, {x \in Range(array) : ~Completed(x)}))],
                          createMutation(artifact.id, "remove_item", <<arrayField>>,
                              Arr(SelectSeqBy(array, {x \in Range(array) : Completed(x)})),
                              source, n + 1, t),
                          1)
        ELSE IF ~intent.hasIndex
        THEN \* array[undefined]; slice(0, undefined) and slice(NaN) are both the whole array
             Success([state EXCEPT !.steps = Arr(array \o array)],
                     createMutation(artifact.id, "remove_item", <<arrayField>>, Undef,
                                    source, n + 1, t),
                     1)
        ELSE Success([state EXCEPT !.steps =
                          Arr(Slice(array, 0, index) \o Slice(array, index + 1, Len(array)))],
                     createMutation(artifact.id, "remove_item", <<arrayField>>,
                                    At(array, index), source, n + 1, t),
                     1)

applyAddItem(artifact, intent, source, n, t) ==
    LET state == artifact.state
        arrayField == findArrayField(state)
        array == state.steps.elems
        isString == intent.value.k = "string"
        newItem == IF isString
                   THEN Item(intent.value, Undef, Bool(FALSE), RandomId(n + 1))
                   ELSE intent.value
        drawn == IF isString THEN 2 ELSE 1
    IN  Success([state EXCEPT !.steps = Arr(Append(array, newItem))],
                createMutation(artifact.id, "add_item", <<arrayField, ToString(Len(array))>>,
                               newItem, source, n + drawn, t),
                drawn)

applyUpdateItem(artifact, intent, source, n, t) ==
    LET state == artifact.state
        arrayField == findArrayField(state)
        array == state.steps.elems
        index == ResolveIndex(array, intent.itemIndex)
        previousValue == IF intent.hasIndex THEN At(array, index) ELSE Undef
        \* array[undefined] = updatedItem sets a property of the array object
        \* and none of its elements
        Updated(updatedItem) ==
            IF intent.hasIndex THEN [array EXCEPT ![index + 1] = updatedItem] ELSE array
        path == <<arrayField, IF intent.hasIndex THEN ToString(index) ELSE "undefined">>
    IN  IF intent.property # ""
        THEN Success([state EXCEPT !.steps = Arr(Updated(
                          SetItemProperty(previousValue, intent.property, intent.value)))],
                     createMutation(artifact.id, "update_item", path, previousValue,
                                    source, n + 1, t),
                     1)
        ELSE IF intent.value.k = "item"
        THEN \* the partial object is merged over the element
             Success([state EXCEPT !.steps = Arr(Updated(
                          [f \in DOMAIN intent.value |->
                              IF f = "k" THEN "item"
                              ELSE IF intent.value[f] # Undef THEN intent.value[f]
                              ELSE IF previousValue.k = "item" THEN previousValue[f]
                              ELSE Undef]))],
                     createMutation(artifact.id, "update_item", path, previousValue,
                                    source, n + 1, t),
                     1)
        ELSE Failure

\* { ...state, [property]: value }: the property is added when the state has
\* none of that name; the empty name is a name
applyUpdateProperty(artifact, intent, source, n, t) ==
    LET state == artifact.state
        property == intent.property
        previousValue == IF property \in DOMAIN state THEN state[property] ELSE Undef
    IN  Success(Put(state, property, intent.value),
                createMutation(artifact.id, "update_property", <<property>>, previousValue,
                               source, n + 1, t),
                1)

applyReorderItems(artifact, intent, source, n, t) ==
    LET state == artifact.state
        arrayField == findArrayField(state)
        array == state.steps.elems
        fromIndex == intent.itemIndex
        toIndex == intent.value.n
    IN  IF arrayField = "" THEN Failure   \* [...state[null]] throws, and is caught
        ELSE Success([state EXCEPT !.steps = Arr(MoveItem(array, fromIndex, toIndex))],
                     createMutation(artifact.id, "reorder_items", <<arrayField>>,
                                    Move(fromIndex, toIndex), source, n + 1, t),
                     1)

applyMutation(artifact, intent, source, n, t) ==
    IF ~validateMutation(artifact, intent) THEN Failure
    ELSE CASE intent.type = "remove_item" -> applyRemoveItem(artifact, intent, source, n, t)
           [] intent.type = "add_item" -> applyAddItem(artifact, intent, source, n, t)
           [] intent.type = "update_item" -> applyUpdateItem(artifact, intent, source, n, t)
           [] intent.type = "update_property" -> applyUpdateProperty(artifact, intent, source, n, t)
           [] intent.type = "reorder_items" -> applyReorderItems(artifact, intent, source, n, t)
           [] OTHER -> Failure

\* ------------------------------------------------- store.ts, continued
Returned(S, result) == [store |-> S, result |-> result]

\* the last record of the log that belongs to the artifact
LastMutationOf(S, artifactId) ==
    LET artifactMutations == getMutations(S, artifactId)
    IN  artifactMutations[Len(artifactMutations)]

undoLastMutationUnchecked(S, artifactId, t) ==
    IF artifactId \notin DOMAIN S.artifacts THEN Returned(S, "false")
    ELSE IF getMutations(S, artifactId) = <<>> THEN Returned(S, "false")
    ELSE LET lastMutation == LastMutationOf(S, artifactId)
             artifact == S.artifacts[artifactId]
         IN  Returned([S EXCEPT
                 !.artifacts[artifactId] =
                     [artifact EXCEPT !.state = lastMutation.previousValue,
                                      !.version = @ + 1, !.updatedAt = t],
                 !.mutations = SelectSeq(@, LAMBDA m : m.id # lastMutation.id)],
                 "true")

undoLastMutation(S, artifactId, t) ==
    IF artifactId \notin DOMAIN S.artifacts THEN Returned(S, "false")
    ELSE IF getMutations(S, artifactId) = <<>> THEN Returned(S, "false")
    ELSE LET lastMutation == LastMutationOf(S, artifactId)
             artifact == S.artifacts[artifactId]
         IN  IF lastMutation.previousValue # Undef
             THEN Returned([S EXCEPT
                      !.artifacts[artifactId] =
                          [artifact EXCEPT !.state = lastMutation.previousValue,
                                           !.version = @ + 1, !.updatedAt = t],
                      !.mutations = SelectSeq(@, LAMBDA m : m.id # lastMutation.id)],
                      "true")
             ELSE Returned(S, "false")

addRelationship(S, sourceId, targetId, type, n, t) ==
    LET relationship == [id |-> RandomId(n + 1), sourceId |-> sourceId,
                         targetId |-> targetId, type |-> type,
                         bidirectional |-> FALSE, createdAt |-> t]
        S1 == [S EXCEPT !.relationships = Append(@, relationship)]
    IN  IF sourceId \in DOMAIN S1.artifacts
        THEN [S1 EXCEPT !.artifacts[sourceId].relatedIds =
                  Related((IF @.def THEN @.ids ELSE <<>>) \o <<targetId>>)]
        ELSE S1

\* (artifact.relatedIds || []).map(id => artifacts[id]).filter(Boolean), as ids
getRelated(S, artifactId) ==
    IF artifactId \notin DOMAIN S.artifacts THEN <<>>
    ELSE SelectSeqBy(S.artifacts[artifactId].relatedIds.ids, DOMAIN S.artifacts)

\* Object.values(artifacts), as the set of records
getAllArtifacts(S) == {S.artifacts[id] : id \in DOMAIN S.artifacts}

NoArtifacts == [i \in {} |-> Undef]

\* clear that leaves the store marked as not hydrated
clearUnhydrated(S) ==
    [artifacts |-> NoArtifacts, mutations |-> <<>>, relationships |-> <<>>, hasHydrated |-> FALSE]

clear(S) ==
    [artifacts |-> NoArtifacts, mutations |-> <<>>, relationships |-> <<>>, hasHydrated |-> TRUE]

setHydrated(S, value) == [S EXCEPT !.hasHydrated = value]

LoadingText == "Artifacts are being loaded from storage..."
EmptyText == "No artifacts exist yet in this conversation."
ListText == "Current artifacts in workspace:"

\* getContextString: which of its three texts it returns
getContextString(S) ==
    IF ~S.hasHydrated THEN LoadingText
    ELSE IF DOMAIN S.artifacts = {} THEN EmptyText
    ELSE ListText

\* useArtifactContextHelper: the status it reports
useArtifactContextHelper(S) == IF ~S.hasHydrated THEN "loading" ELSE "ready"

\* ------------------------------------------------------------ persistence
\* JSON.parse(JSON.stringify(v)): an undefined element of an array is written
\* as null; an undefined property is left out and reads back as undefined
JsonArray(elems) == [i \in DOMAIN elems |-> IF elems[i] = Undef THEN Null ELSE elems[i]]

Json(v) ==
    CASE v.k = "array" -> Arr(JsonArray(v.elems))
      [] v.k = "plan" -> [v EXCEPT !.steps = IF @.k = "array" THEN Arr(JsonArray(@.elems)) ELSE @]
      [] OTHER -> v

NoDocument == [k |-> "null"]

\* partialize: the artifacts without their schema and with schemaKey = type,
\* and the two lists
partialize(S) ==
    [k |-> "document",
     artifacts |-> [id \in DOMAIN S.artifacts |->
                       [S.artifacts[id] EXCEPT !.schema = Undef,
                                               !.schemaKey = Str(S.artifacts[id].type)]],
     mutations |-> S.mutations,
     relationships |-> S.relationships]

\* what the storage holds after setItem: the document through JSON
Serialize(doc) ==
    [doc EXCEPT
        !.artifacts = [id \in DOMAIN @ |-> [@[id] EXCEPT !.state = Json(@)]],
        !.mutations = [i \in DOMAIN @ |->
                          [@[i] EXCEPT !.value = Json(@), !.previousValue = Json(@)]]]

Persisted(S) == Serialize(partialize(S))

\* the persist middleware's merge, { ...current, ...persisted }
Merge(S, doc) ==
    IF doc = NoDocument THEN S
    ELSE [S EXCEPT !.artifacts = doc.artifacts, !.mutations = doc.mutations,
                   !.relationships = doc.relationships]

\* the schema onRehydrateStorage attaches: the registry's, or z.any()
RehydrateSchema(serializedArtifact) ==
    LET schema == ARTIFACT_SCHEMAS(IF serializedArtifact.schemaKey # Undef
                                   THEN serializedArtifact.schemaKey.s
                                   ELSE serializedArtifact.type)
    IN  IF schema # Undef THEN schema ELSE ZAny

\* the callback onRehydrateStorage returns, on the merged state
onRehydrateStorage(S) ==
    [S EXCEPT !.artifacts = [id \in DOMAIN S.artifacts |->
                                [S.artifacts[id] EXCEPT !.schema = RehydrateSchema(S.artifacts[id])]],
              !.hasHydrated = TRUE]

\* the store a new session finds after its storage was read
Rehydrated(S, doc) == onRehydrateStorage(Merge(S, doc))

\* the callback of the fallback timer of useArtifactHydration
timerCallbackInverted(S) == IF S.hasHydrated THEN setHydrated(S, TRUE) ELSE S

timerCallback(S) == IF ~S.hasHydrated THEN setHydrated(S, TRUE) ELSE S

\* ----------------------------------------------------------------- inputs
IntentInputs ==
    { Intent("remove_item", TRUE, -1, "", Undef, FALSE),
      Intent("remove_item", TRUE, 5, "", Undef, FALSE),
      Intent("remove_item", FALSE, 0, "", Undef, TRUE),
      Intent("add_item", FALSE, 0, "", Str("Ship"), FALSE),
      Intent("update_item", TRUE, 0, "status", Str("complete"), FALSE),
      Intent("update_property", FALSE, 0, "title", Str("X"), FALSE),
      Intent("reorder_items", TRUE, 0, "", Num(1), FALSE),
      Intent("reorder_items", TRUE, 4, "", Num(0), FALSE) }

EditValues == {Str("X")}

\* ---------------------------------------------------------------- actions
Call(op, id, result) == [op |-> op, id |-> id, result |-> result]

\* the components that call the store render once the store is hydrated
Ready == hasHydrated /\ mounted

\* set(...) of the persisted store: the new state, written through to storage
SetStore(S) ==
    /\ artifacts' = S.artifacts
    /\ mutations' = S.mutations
    /\ relationships' = S.relationships
    /\ hasHydrated' = S.hasHydrated
    /\ storage' = Persisted(S)

NoSet == UNCHANGED <<artifacts, mutations, relationships, hasHydrated, storage>>

Init ==
    /\ artifacts = NoArtifacts
    /\ mutations = <<>>
    /\ relationships = <<>>
    /\ hasHydrated = FALSE
    /\ storage = NoDocument
    /\ hydration = "pending"
    /\ timerArmed = FALSE
    /\ mounted = FALSE
    /\ now = 1
    /\ ids = 0
    /\ last = Call("create", "", "void")

Tick ==
    /\ now < MaxClock
    /\ now' = now + 1
    /\ last' = Call("tick", "", "void")
    /\ UNCHANGED <<ids, hydration, timerArmed, mounted>>
    /\ NoSet

CreateArtifact ==
    \E id \in ArtifactIds \ DOMAIN artifacts :
        /\ Ready
        /\ SetStore(createArtifact(Store, id, TypeOf(id), InitialState(id),
                                   Schema(TypeOf(id)), now))
        /\ last' = Call("createArtifact", id, "void")
        /\ UNCHANGED <<now, ids, hydration, timerArmed, mounted>>

AddArtifact ==
    \E id \in ArtifactIds :
        /\ Ready
        /\ SetStore(addArtifact(Store,
               NewArtifact(id, TypeOf(id), InitialState(id), Schema(TypeOf(id)),
                           NoRelated, now)))
        /\ last' = Call("addArtifact", id, "void")
        /\ UNCHANGED <<now, ids, hydration, timerArmed, mounted>>

UpdateArtifact ==
    \E id \in ArtifactIds :
        /\ Ready
        /\ id \in DOMAIN artifacts => artifacts[id].version < MaxVersion
        /\ SetStore(updateArtifact(Store, id, InitialState(id), now))
        /\ last' = Call("updateArtifact", id, "void")
        /\ UNCHANGED <<now, ids, hydration, timerArmed, mounted>>

DeleteArtifact ==
    \E id \in ArtifactIds :
        /\ Ready
        /\ SetStore(deleteArtifact(Store, id))
        /\ last' = Call("deleteArtifact", id, "void")
        /\ UNCHANGED <<now, ids, hydration, timerArmed, mounted>>

\* addMutation called with a record that has no id and no timestamp
\* (the inline step editor's record)
AddMutation ==
    \E artifactId \in ArtifactIds :
        /\ Ready
        /\ ids < MaxIds
        /\ SetStore(addMutation(Store,
               [id |-> Undef, artifactId |-> artifactId, operation |-> "update_item",
                path |-> <<"steps", "0">>, value |-> Str("X"),
                previousValue |-> Str("Design"), timestamp |-> Undef, source |-> "user"],
               RandomId(ids + 1), now))
        /\ ids' = ids + 1
        /\ last' = Call("addMutation", artifactId, "void")
        /\ UNCHANGED <<now, hydration, timerArmed, mounted>>

UndoLastMutation ==
    \E artifactId \in ArtifactIds :
        LET r == undoLastMutation(Store, artifactId, now)
        IN  /\ Ready
            /\ (r.result = "true") => artifacts[artifactId].version < MaxVersion
            /\ IF r.result = "true" THEN SetStore(r.store) ELSE NoSet
            /\ last' = Call("undoLastMutation", artifactId, r.result)
            /\ UNCHANGED <<now, ids, hydration, timerArmed, mounted>>

AddRelationship ==
    \E sourceId \in ArtifactIds, targetId \in ArtifactIds, type \in RelTypes :
        /\ Ready
        /\ ids < MaxIds
        /\ SetStore(addRelationship(Store, sourceId, targetId, type, ids, now))
        /\ ids' = ids + 1
        /\ last' = Call("addRelationship", sourceId, "void")
        /\ UNCHANGED <<now, hydration, timerArmed, mounted>>

\* the two reads that take an id; they return a list and change nothing
GetRelated ==
    \E artifactId \in ArtifactIds :
        /\ Ready
        /\ last' = Call("getRelated", artifactId, "list")
        /\ UNCHANGED <<now, ids, hydration, timerArmed, mounted>>
        /\ NoSet

GetMutations ==
    \E artifactId \in ArtifactIds :
        /\ Ready
        /\ last' = Call("getMutations", artifactId, "list")
        /\ UNCHANGED <<now, ids, hydration, timerArmed, mounted>>
        /\ NoSet

Clear ==
    /\ Ready
    /\ SetStore(clear(Store))
    /\ last' = Call("clear", "", "void")
    /\ UNCHANGED <<now, ids, hydration, timerArmed, mounted>>

\* executeMutation that writes the artifact back when the applier fails
executeMutationWritesOnFailure(S, artifactId, intent, n, t) ==
    LET artifact == getArtifact(S, artifactId)
        result == applyMutation(artifact, intent, "user", n, t)
    IN  IF artifact = Undef THEN [result |-> "failure", store |-> S, drawn |-> 0, set |-> FALSE]
        ELSE IF ValidateThrows(artifact.state, intent)
        THEN [result |-> "throw", store |-> S, drawn |-> 0, set |-> FALSE]
        ELSE IF ~result.success
        THEN [result |-> "failure", store |-> updateArtifact(S, artifactId, artifact.state, t),
              drawn |-> 0, set |-> TRUE]
        ELSE [result |-> "success",
              store |-> addMutation(updateArtifact(S, artifactId, result.newState, t),
                                    result.mutation, RandomId(n + result.drawn + 1), t),
              drawn |-> result.drawn, set |-> TRUE]

\* the facade's executeMutation: what it returns, and the store it leaves
executeMutation(S, artifactId, intent, n, t) ==
    LET artifact == getArtifact(S, artifactId)
        result == applyMutation(artifact, intent, "user", n, t)
    IN  IF artifact = Undef THEN [result |-> "failure", store |-> S, drawn |-> 0, set |-> FALSE]
        ELSE IF ValidateThrows(artifact.state, intent)
        THEN [result |-> "throw", store |-> S, drawn |-> 0, set |-> FALSE]
        ELSE IF ~validateMutation(artifact, intent)
        THEN [result |-> "failure", store |-> S, drawn |-> 0, set |-> FALSE]
        ELSE IF ~result.success
        THEN [result |-> "failure", store |-> S, drawn |-> 0, set |-> FALSE]
        ELSE [result |-> "success",
              store |-> addMutation(updateArtifact(S, artifactId, result.newState, t),
                                    result.mutation, RandomId(n + result.drawn + 1), t),
              drawn |-> result.drawn, set |-> TRUE]

ExecuteMutation ==
    \E artifactId \in ArtifactIds, intent \in IntentInputs :
        LET r == executeMutation(Store, artifactId, intent, ids, now)
        IN  /\ Ready
            /\ r.set => /\ artifacts[artifactId].version < MaxVersion
                                        /\ ids + r.drawn <= MaxIds
            /\ IF r.set THEN SetStore(r.store) ELSE NoSet
            /\ ids' = ids + r.drawn
            /\ last' = Call("executeMutation", artifactId, r.result)
            /\ UNCHANGED <<now, hydration, timerArmed, mounted>>

\* EditableText.handleSave with path = ['title']: the record's id is made of
\* the clock, `mut_${Date.now()}`
handleSave(S, artifactId, value, editValue, t) ==
    IF editValue = value \/ artifactId \notin DOMAIN S.artifacts THEN S
    ELSE addMutation(
             updateArtifact(S, artifactId,
                            [S.artifacts[artifactId].state EXCEPT !.title = editValue], t),
             [id |-> TimeId(t), artifactId |-> artifactId, operation |-> "update_property",
              path |-> <<"title">>, value |-> editValue, previousValue |-> value,
              timestamp |-> Num(t), source |-> "user"],
             Undef, t)

\* the field is rendered from the artifact's state, which has a title
EditableTextSave ==
    \E artifactId \in DOMAIN artifacts, editValue \in EditValues :
        /\ Ready
        /\ artifacts[artifactId].state.k \in {"plan", "item"}
        /\ editValue # artifacts[artifactId].state.title
        /\ artifacts[artifactId].version < MaxVersion
        /\ SetStore(handleSave(Store, artifactId, artifacts[artifactId].state.title,
                               editValue, now))
        /\ last' = Call("handleSave", artifactId, "void")
        /\ UNCHANGED <<now, ids, hydration, timerArmed, mounted>>

\* nlp-mutations.ts executeMutation, ADD_ITEM and MOVE_ITEM, on a plan-shaped
\* state: the record it logs has no previousValue
nlpExecuteMutation(S, action, n, t) ==
    LET artifact == S.artifacts[action.artifactId]
        steps == artifact.state.steps.elems
        newStep == Item(Str(action.title), Str("pending"), Undef, Undef)
        newSteps == IF action.type = "ADD_ITEM" THEN Append(steps, newStep)
                    ELSE MoveItem(steps, action.fromIndex, action.toIndex)
        record == IF action.type = "ADD_ITEM"
                  THEN [id |-> Undef, artifactId |-> action.artifactId,
                        operation |-> "add_item",
                        path |-> <<"steps", ToString(Len(newSteps) - 1)>>,
                        value |-> newStep, previousValue |-> Undef,
                        timestamp |-> Undef, source |-> "user"]
                  ELSE [id |-> Undef, artifactId |-> action.artifactId,
                        operation |-> "move_item", path |-> <<"steps">>,
                        value |-> Move(action.fromIndex, action.toIndex),
                        previousValue |-> Undef, timestamp |-> Undef, source |-> "user"]
    IN  IF action.artifactId \notin DOMAIN S.artifacts THEN Returned(S, "false")
        ELSE IF artifact.type # "ExecutionPlan" THEN Returned(S, "false")
        ELSE Returned(addMutation(
                          updateArtifact(S, action.artifactId,
                                         [artifact.state EXCEPT !.steps = Arr(newSteps)], t),
                          record, RandomId(n + 1), t),
                      "true")

NlpActions(artifactId) ==
    { [type |-> "ADD_ITEM", artifactId |-> artifactId, title |-> "Test",
       fromIndex |-> 0, toIndex |-> 0],
      [type |-> "MOVE_ITEM", artifactId |-> artifactId, title |-> "",
       fromIndex |-> 0, toIndex |-> 1] }

NlpMutation ==
    \E artifactId \in ArtifactIds :
        \E action \in NlpActions(artifactId) :
            LET r == nlpExecuteMutation(Store, action, ids, now)
            IN  /\ Ready
                /\ artifactId \in DOMAIN artifacts => findArrayField(artifacts[artifactId].state) # ""
                /\ (r.result = "true") =>
                       /\ artifacts[artifactId].version < MaxVersion
                                      /\ ids < MaxIds
                /\ IF r.result = "true" THEN SetStore(r.store) ELSE NoSet
                /\ ids' = IF r.result = "true" THEN ids + 1 ELSE ids
                /\ last' = Call("nlpExecuteMutation", artifactId, r.result)
                /\ UNCHANGED <<now, hydration, timerArmed, mounted>>

\* ------------------------------------------------------------- hydration
\* useArtifactHydration renders: while the store is not hydrated it arms the
\* fallback timer
RenderHook ==
    /\ ~mounted \/ (~hasHydrated /\ ~timerArmed)
    /\ mounted' = TRUE
    /\ timerArmed' = (timerArmed \/ ~hasHydrated)
    /\ last' = Call("useArtifactHydration", "", IF hasHydrated THEN "true" ELSE "false")
    /\ UNCHANGED <<now, ids, hydration>>
    /\ NoSet

\* the timer fires: setHydrated(true) unless the store is hydrated by then
TimerFire ==
    /\ timerArmed
    /\ timerArmed' = FALSE
    /\ IF timerCallback(Store) # Store THEN SetStore(timerCallback(Store)) ELSE NoSet
    /\ last' = Call("timer", "", "void")
    /\ UNCHANGED <<now, ids, hydration, mounted>>

\* the persist middleware read the storage: it merges the document into the
\* state and calls the callback, which assigns to the state without set()
Rehydrate ==
    /\ hydration = "pending"
    /\ hydration' = "done"
    /\ LET S == Rehydrated(Store, storage)
       IN  /\ artifacts' = S.artifacts
           /\ mutations' = S.mutations
           /\ relationships' = S.relationships
           /\ hasHydrated' = S.hasHydrated
    /\ last' = Call("rehydrate", "", "void")
    /\ UNCHANGED <<storage, now, ids, timerArmed, mounted>>

\* the read failed: the callback gets no state and returns
RehydrateFails ==
    /\ hydration = "pending"
    /\ hydration' = "failed"
    /\ last' = Call("rehydrate", "", "error")
    /\ UNCHANGED <<now, ids, timerArmed, mounted>>
    /\ NoSet

\* the page is loaded again: a new store over the same storage
Reload ==
    /\ hydration # "pending"
    /\ artifacts' = NoArtifacts
    /\ mutations' = <<>>
    /\ relationships' = <<>>
    /\ hasHydrated' = FALSE
    /\ hydration' = "pending"
    /\ timerArmed' = FALSE
    /\ mounted' = FALSE
    /\ last' = Call("create", "", "void")
    /\ UNCHANGED <<storage, now, ids>>

\* a page session from the creation of the store on: hydration, the calls that
\* write the storage, and the reload that reads it back
Next ==
    \/ RenderHook
    \/ TimerFire
    \/ Rehydrate
    \/ RehydrateFails
    \/ Reload
    \/ CreateArtifact
    \/ ExecuteMutation
    \/ AddRelationship

Spec == Init /\ [][Next]_vars

\* one page session: the timer of a render is never cleared, and runs once the
\* event loop is free
NextLive ==
    \/ RenderHook
    \/ TimerFire
    \/ Rehydrate
    \/ RehydrateFails
    \/ CreateArtifact
    \/ ExecuteMutation
    \/ AddRelationship

SpecLive == Init /\ [][NextLive]_vars /\ WF_vars(TimerFire)

\* --------------------------------------------- the store once it is hydrated
\* the state the hydration and the first render of an empty storage lead to
InitHydrated ==
    /\ artifacts = NoArtifacts
    /\ mutations = <<>>
    /\ relationships = <<>>
    /\ hasHydrated = TRUE
    /\ storage = NoDocument
    /\ hydration = "done"
    /\ timerArmed = FALSE
    /\ mounted = TRUE
    /\ now = 1
    /\ ids = 0
    /\ last = Call("useArtifactHydration", "", "true")

\* the editors: commands, inline edits and undo
NextEdit ==
    \/ Tick
    \/ CreateArtifact
    \/ ExecuteMutation
    \/ UndoLastMutation
    \/ EditableTextSave
    \/ NlpMutation

SpecEdit == InitHydrated /\ [][NextEdit]_vars

\* the store's own operations, called with known and unknown ids
NextStore ==
    \/ CreateArtifact
    \/ AddArtifact
    \/ UpdateArtifact
    \/ DeleteArtifact
    \/ AddMutation
    \/ UndoLastMutation
    \/ AddRelationship
    \/ GetRelated
    \/ GetMutations
    \/ Clear

SpecStore == InitHydrated /\ [][NextStore]_vars

\* ------------------------------------------------- reference-resolver.ts
\* the ids a message can name: a1 and a3 stand for ids of eight hex digits
\* (uuidv4().split('-')[0]), a2 for an id of another shape (a template's id,
\* shortId's base 36)
ResolveIds == {"a1", "a2", "a3"}
HexIds == {"a1", "a3"}

\* A message, by what the resolver's patterns find in it: the token after '#',
\* the token after 'artifact ', the ordinal and recency words, the type
\* keyword after the/that, and whether this/that/it is a word of it
Message(hash, word, ordinals, recency, keyword, pronoun) ==
    [hash |-> hash, word |-> word, ordinals |-> ordinals, recency |-> recency,
     keyword |-> keyword, pronoun |-> pronoun]

\* message.match(/#([a-f0-9]{8})/i): the captured id, lower-cased, "" for no match
HexToken(token) == IF token \in HexIds THEN token ELSE ""

\* typeMap[typeKeyword] || []
typeMap(typeKeyword) ==
    CASE typeKeyword \in {"plan", "roadmap"} -> {"ExecutionPlan"}
      [] typeKeyword = "checklist" -> {"ExecutionPlan", "CommandResultPanel"}
      [] typeKeyword \in {"result", "analysis"} -> {"CommandResultPanel"}
      [] typeKeyword = "status" -> {"SystemStatusPanel"}
      [] OTHER -> {}

\* [...list].sort(by createdAt), a stable sort of the ids in the order of
\* Object.values: ascending, or descending when newestFirst
SortedByTime(arts, order, newestFirst) ==
    LET Before(i, j) ==
            IF arts[order[i]].createdAt = arts[order[j]].createdAt THEN i < j
            ELSE IF newestFirst THEN arts[order[i]].createdAt > arts[order[j]].createdAt
            ELSE arts[order[i]].createdAt < arts[order[j]].createdAt
        Rank(j) == Cardinality({i \in DOMAIN order : Before(i, j)}) + 1
    IN  [p \in DOMAIN order |-> order[CHOOSE j \in DOMAIN order : Rank(j) = p]]

\* resolveReference: the id it returns, "" for null; order is the order of
\* Object.values(artifacts)
resolveReference(message, arts, order, recentArtifactIds) ==
    LET oldestFirst == SortedByTime(arts, order, FALSE)
        sortedByTime == SortedByTime(arts, order, TRUE)
        matchingTypes == typeMap(message.keyword)
        matching == {i \in DOMAIN sortedByTime : arts[sortedByTime[i]].type \in matchingTypes}
        recentId == recentArtifactIds[Len(recentArtifactIds)]
    IN  IF order = <<>> THEN ""
        ELSE IF HexToken(message.hash) # "" /\ HexToken(message.hash) \in DOMAIN arts
        THEN HexToken(message.hash)
        ELSE IF HexToken(message.word) # "" /\ HexToken(message.word) \in DOMAIN arts
        THEN HexToken(message.word)
        ELSE IF "first" \in message.ordinals THEN oldestFirst[1]
        ELSE IF "second" \in message.ordinals /\ Len(order) > 1 THEN oldestFirst[2]
        ELSE IF "third" \in message.ordinals /\ Len(order) > 2 THEN oldestFirst[3]
        ELSE IF "last" \in message.recency THEN sortedByTime[1]
        ELSE IF "previous" \in message.recency /\ Len(order) > 1 THEN sortedByTime[2]
        ELSE IF message.keyword # "" /\ matching # {}
        THEN sortedByTime[CHOOSE i \in matching : \A j \in matching : i <= j]
        ELSE IF message.pronoun
        THEN IF recentArtifactIds # <<>> /\ recentId \in DOMAIN arts THEN recentId
             ELSE sortedByTime[1]
        ELSE ""

\* the type the resolver's stores give each id
ResolveType(id) ==
    CASE id = "a1" -> "ExecutionPlan"
      [] id = "a2" -> "ExecutionPlan"
      [] OTHER -> "SystemStatusPanel"

\* the messages the resolver is given
ResolveMessages ==
    { Message("a1", "", {}, {}, "", FALSE),               \* remove item 2 from #<a1>
      Message("a2", "", {}, {}, "", FALSE),               \* remove item 2 from #<a2>
      Message("a3", "", {"first"}, {"last"}, "", FALSE),  \* the first step of #<a3>, not the last
      Message("", "a1", {}, {}, "status", TRUE),          \* copy artifact <a1> into that status
      Message("", "", {}, {"last"}, "", FALSE),           \* remove the last step
      Message("", "", {"first"}, {"last"}, "", FALSE),    \* swap the first and the last
      Message("", "", {"second"}, {"previous"}, "", FALSE),  \* the second one, not the previous
      Message("", "", {"third"}, {}, "plan", FALSE),      \* the third step of the plan
      Message("", "", {}, {"previous"}, "status", FALSE), \* the previous version of the status
      Message("", "", {}, {}, "plan", TRUE),              \* rename that plan
      Message("", "", {}, {}, "status", FALSE),           \* refresh the status
      Message("", "", {}, {}, "result", TRUE),            \* clear that result
      Message("", "", {}, {}, "", TRUE),                  \* delete it
      Message("", "", {}, {}, "", FALSE) }                \* hello

RecentLists == {<<>>, <<"a3", "a1">>, <<"a1", "a2">>}

\* the orders Object.values can give the artifacts of a store
Orders(keys) ==
    {o \in [1 .. Cardinality(keys) -> keys] : \A i, j \in DOMAIN o : o[i] = o[j] => i = j}

\* what a call of the resolver was given and what it returned
Resolved(message, order, recent, result) ==
    [op |-> "resolveReference", id |-> result, result |-> "id",
     message |-> message, order |-> order, recent |-> recent]

\* the resolver is a function of its arguments: it is given stores of up to
\* three artifacts created at any times of the clock
InitResolve ==
    /\ \E known \in SUBSET ResolveIds :
           \E t \in [known -> 1 .. MaxClock] :
               artifacts = [id \in known |->
                               NewArtifact(id, ResolveType(id), InitialState(id),
                                           ARTIFACT_SCHEMAS(ResolveType(id)),
                                           Related(<<>>), t[id])]
    /\ mutations = <<>>
    /\ relationships = <<>>
    /\ hasHydrated = TRUE
    /\ storage = Persisted(Store)
    /\ hydration = "done"
    /\ timerArmed = FALSE
    /\ mounted = TRUE
    /\ now = MaxClock
    /\ ids = 0
    /\ last = Call("useArtifactHydration", "", "true")

ResolveReference ==
    \E message \in ResolveMessages, order \in Orders(DOMAIN artifacts),
       recent \in RecentLists :
        /\ Ready
        /\ last' = Resolved(message, order, recent,
                            resolveReference(message, artifacts, order, recent))
        /\ UNCHANGED <<now, ids, hydration, timerArmed, mounted>>
        /\ NoSet

NextResolve == ResolveReference

SpecResolve == InitResolve /\ [][NextResolve]_vars

\* ------------------------------------------- the text of a command
\* A command is the sequence of its lower-cased tokens between runs of
\* blanks: words (Str), numbers (Num) and '#<id>' tokens. In a run of three
\* blanks the middle one can be captured by (.+?) between two \s+: it is the
\* blank word, which trim() makes the empty word Str("")
Blank == Str("")
Hash(id) == [k |-> "hash", id |-> id]

TokenAt(text, i) == IF i \in DOMAIN text THEN text[i] ELSE Undef
IsWord(token, words) == token.k = "string" /\ token.s \in words
IsNumber(token) == token.k = "number"

RECURSIVE JoinTokens(_)
\* the text of a run of tokens
JoinTokens(tokens) ==
    LET TextOf(token) == CASE token.k = "string" -> token.s
                           [] token.k = "number" -> ToString(token.n)
                           [] OTHER -> "#" \o token.id
    IN  IF tokens = <<>> THEN ""
        ELSE IF Len(tokens) = 1 THEN TextOf(tokens[1])
        ELSE TextOf(tokens[1]) \o " " \o JoinTokens(Tail(tokens))

\* the leftmost position a pattern matches at, 0 for no match
Leftmost(positions) ==
    IF positions = {} THEN 0 ELSE CHOOSE i \in positions : \A j \in positions : i <= j

\* the details an extractor returns
NoDetails == Intent("", FALSE, 0, "", Undef, FALSE)
Details(type, hasIndex, itemIndex, property, value, condition) ==
    Intent(type, hasIndex, itemIndex, property, value, condition)

OrdinalWords == {"first", "second", "third", "last"}
ordinalMap(word) ==
    CASE word = "first" -> 0 [] word = "second" -> 1 [] word = "third" -> 2 [] OTHER -> -1

\* MUTATION_PATTERNS[0]: (remove|delete) (item )?(\d+|the (first|second|third|last))
RemoveIndexed(text) ==
    LET Arg(i) == IF IsWord(TokenAt(text, i + 1), {"item"}) THEN i + 2 ELSE i + 1
        Matches(i) ==
            /\ IsWord(text[i], {"remove", "delete"})
            /\ \/ IsNumber(TokenAt(text, Arg(i)))
               \/ /\ IsWord(TokenAt(text, Arg(i)), {"the"})
                  /\ IsWord(TokenAt(text, Arg(i) + 1), OrdinalWords)
        at == Leftmost({i \in DOMAIN text : Matches(i)})
    IN  IF at = 0 THEN NoDetails
        ELSE IF IsNumber(text[Arg(at)])
        THEN Details("remove_item", TRUE, text[Arg(at)].n - 1, "", Undef, FALSE)
        ELSE Details("remove_item", TRUE, ordinalMap(text[Arg(at) + 1].s), "", Undef, FALSE)

\* MUTATION_PATTERNS[1]: (remove|delete) (the )?(last|first) (item|step|one);
\* the extractor looks for last, then first, in the whole message
RemoveEnd(text) ==
    LET Arg(i) == IF IsWord(TokenAt(text, i + 1), {"the"}) THEN i + 2 ELSE i + 1
        Matches(i) ==
            /\ IsWord(text[i], {"remove", "delete"})
            /\ IsWord(TokenAt(text, Arg(i)), {"last", "first"})
            /\ IsWord(TokenAt(text, Arg(i) + 1), {"item", "step", "one"})
    IN  IF Leftmost({i \in DOMAIN text : Matches(i)}) = 0 THEN NoDetails
        ELSE IF \E i \in DOMAIN text : IsWord(text[i], {"last"})
        THEN Details("remove_item", TRUE, -1, "", Undef, FALSE)
        ELSE Details("remove_item", TRUE, 0, "", Undef, FALSE)

\* MUTATION_PATTERNS[2]: (remove|delete) completed
RemoveCompleted(text) ==
    IF \E i \in DOMAIN text :
           IsWord(text[i], {"remove", "delete"}) /\ IsWord(TokenAt(text, i + 1), {"completed"})
    THEN Details("remove_item", FALSE, 0, "", Undef, TRUE)
    ELSE NoDetails

\* MUTATION_PATTERNS[3]: (add|insert) (.+?) (to|into|at); the value is the
\* shortest run of tokens up to a following to, into or at
AddValue(text) ==
    LET Ends(i) == {j \in DOMAIN text : j > i + 1 /\ IsWord(text[j], {"to", "into", "at"})}
        Matches(i) == IsWord(text[i], {"add", "insert"}) /\ Ends(i) # {}
        at == Leftmost({i \in DOMAIN text : Matches(i)})
    IN  IF at = 0 THEN NoDetails
        ELSE Details("add_item", FALSE, 0, "",
                     Str(JoinTokens(SubSeq(text, at + 1, Leftmost(Ends(at)) - 1))), FALSE)

\* MUTATION_PATTERNS[4]: (add|append) (a )?(new )?(item|step)
AddNew(text) ==
    LET AfterA(i) == IF IsWord(TokenAt(text, i + 1), {"a"}) THEN i + 2 ELSE i + 1
        AfterNew(i) == IF IsWord(TokenAt(text, AfterA(i)), {"new"})
                       THEN AfterA(i) + 1 ELSE AfterA(i)
        Matches(i) == /\ IsWord(text[i], {"add", "append"})
                      /\ IsWord(TokenAt(text, AfterNew(i)), {"item", "step"})
    IN  IF Leftmost({i \in DOMAIN text : Matches(i)}) = 0 THEN NoDetails
        ELSE Details("add_item", FALSE, 0, "", Str("New item"), FALSE)

\* MUTATION_PATTERNS[5]: mark (item )?(\d+) (as )?(\w+)
MarkIndexed(text) ==
    LET Arg(i) == IF IsWord(TokenAt(text, i + 1), {"item"}) THEN i + 2 ELSE i + 1
        Word(i) == IF /\ IsWord(TokenAt(text, Arg(i) + 1), {"as"})
                      /\ TokenAt(text, Arg(i) + 2).k \in {"string", "number"}
                   THEN Arg(i) + 2 ELSE Arg(i) + 1
        Matches(i) == /\ IsWord(text[i], {"mark"})
                      /\ IsNumber(TokenAt(text, Arg(i)))
                      /\ TokenAt(text, Word(i)).k \in {"string", "number"}
        at == Leftmost({i \in DOMAIN text : Matches(i)})
    IN  IF at = 0 THEN NoDetails
        ELSE Details("update_item", TRUE, text[Arg(at)].n - 1, "status",
                     Str(JoinTokens(<<text[Word(at)]>>)), FALSE)

\* MUTATION_PATTERNS[6]: (mark|set) (as|to) (complete|done|finished)
MarkDone(text) ==
    IF \E i \in DOMAIN text :
           /\ IsWord(text[i], {"mark", "set"})
           /\ IsWord(TokenAt(text, i + 1), {"as", "to"})
           /\ IsWord(TokenAt(text, i + 2), {"complete", "done", "finished"})
    THEN Details("update_item", FALSE, 0, "completed", Bool(TRUE), FALSE)
    ELSE NoDetails

\* MUTATION_PATTERNS[7]: (change|update|set) (.+?) to (.+?)$; the property is the
\* shortest run up to a following to, trimmed, and the value is the rest
SetProperty(text) ==
    LET Ends(i) == {j \in DOMAIN text :
                        j > i + 1 /\ j < Len(text) /\ IsWord(text[j], {"to"})}
        Matches(i) == IsWord(text[i], {"change", "update", "set"}) /\ Ends(i) # {}
        at == Leftmost({i \in DOMAIN text : Matches(i)})
        to == Leftmost(Ends(at))
    IN  IF at = 0 THEN NoDetails
        ELSE Details("update_property", FALSE, 0,
                     JoinTokens(SubSeq(text, at + 1, to - 1)),
                     Str(JoinTokens(SubSeq(text, to + 1, Len(text)))), FALSE)

\* MUTATION_PATTERNS[8]: (move|reorder) (item )?(\d+) (to|before|after) (\d+)
MoveIndexed(text) ==
    LET Arg(i) == IF IsWord(TokenAt(text, i + 1), {"item"}) THEN i + 2 ELSE i + 1
        Matches(i) == /\ IsWord(text[i], {"move", "reorder"})
                      /\ IsNumber(TokenAt(text, Arg(i)))
                      /\ IsWord(TokenAt(text, Arg(i) + 1), {"to", "before", "after"})
                      /\ IsNumber(TokenAt(text, Arg(i) + 2))
        at == Leftmost({i \in DOMAIN text : Matches(i)})
    IN  IF at = 0 THEN NoDetails
        ELSE Details("reorder_items", TRUE, text[Arg(at)].n - 1, "",
                     Num(text[Arg(at) + 2].n - 1), FALSE)

\* the details of the first pattern of MUTATION_PATTERNS that matches; \s+
\* runs over a blank word, which only (.+?) can capture
MUTATION_PATTERNS(text) ==
    LET words == SelectSeq(text, LAMBDA token : token # Blank)
        extracted == <<RemoveIndexed(words), RemoveEnd(words), RemoveCompleted(words),
                       AddValue(text), AddNew(words), MarkIndexed(words), MarkDone(words),
                       SetProperty(text), MoveIndexed(words)>>
        first == Leftmost({i \in DOMAIN extracted : extracted[i] # NoDetails})
    IN  IF first = 0 THEN NoDetails ELSE extracted[first]

\* what the resolver's patterns find in a text
Features(text) ==
    LET Has(words) == \E i \in DOMAIN text : IsWord(text[i], words)
        hexAt == Leftmost({i \in DOMAIN text : text[i].k = "hash" /\ text[i].id \in HexIds})
        hashAt == Leftmost({i \in DOMAIN text : text[i].k = "hash"})
        wordAt == Leftmost({i \in DOMAIN text :
                                /\ IsWord(text[i], {"artifact"})
                                /\ IsWord(TokenAt(text, i + 1), HexIds)})
        keywordAt == Leftmost({i \in DOMAIN text :
                                   /\ IsWord(text[i], {"the", "that"})
                                   /\ IsWord(TokenAt(text, i + 1),
                                             {"plan", "roadmap", "checklist", "result",
                                              "status", "analysis"})})
    IN  Message(IF hexAt # 0 THEN text[hexAt].id
                ELSE IF hashAt # 0 THEN text[hashAt].id ELSE "",
                IF wordAt # 0 THEN text[wordAt + 1].s ELSE "",
                (IF Has({"first", "1st"}) THEN {"first"} ELSE {})
                    \cup (IF Has({"second", "2nd"}) THEN {"second"} ELSE {})
                    \cup (IF Has({"third", "3rd"}) THEN {"third"} ELSE {}),
                (IF Has({"last", "latest"}) THEN {"last"} ELSE {})
                    \cup (IF Has({"previous", "prior"}) THEN {"previous"} ELSE {}),
                IF keywordAt # 0 THEN text[keywordAt + 1].s ELSE "",
                Has({"this", "that", "it"}))

\* detectArtifactReference: the first of its four patterns that matches, and
\* the resolver on the matched part of the message only
detectArtifactReference(text, arts, order) ==
    LET typed == Leftmost({i \in DOMAIN text :
                               /\ IsWord(text[i], {"that", "this", "the"})
                               /\ IsWord(TokenAt(text, i + 1),
                                         {"roadmap", "plan", "checklist", "list",
                                          "analysis", "status", "result"})})
        pronoun == Leftmost({i \in DOMAIN text : IsWord(text[i], {"it", "that", "this"})})
        hash == Leftmost({i \in DOMAIN text : text[i].k = "hash" /\ text[i].id \in HexIds})
        word == Leftmost({i \in DOMAIN text :
                              /\ IsWord(text[i], {"artifact"})
                              /\ IsWord(TokenAt(text, i + 1), HexIds)})
        matched == IF typed # 0 THEN SubSeq(text, typed, typed + 1)
                   ELSE IF pronoun # 0 THEN SubSeq(text, pronoun, pronoun)
                   ELSE IF hash # 0 THEN SubSeq(text, hash, hash)
                   ELSE IF word # 0 THEN SubSeq(text, word, word + 1)
                   ELSE <<>>
    IN  IF matched = <<>> THEN "" ELSE resolveReference(Features(matched), arts, order, <<>>)

\* detectMutation: null, or the intent of the first pattern that matches, on
\* the artifact the whole message resolves to, else on the newest one
NoIntent == [artifactId |-> "", details |-> NoDetails]
detectMutation(text, arts, order) ==
    LET artifactId == resolveReference(Features(text), arts, order, <<>>)
        details == MUTATION_PATTERNS(text)
    IN  IF order = <<>> \/ details = NoDetails THEN NoIntent
        ELSE [artifactId |-> IF artifactId # "" THEN artifactId
                             ELSE SortedByTime(arts, order, TRUE)[1],
              details |-> details]

\* ------------------------------------------- relationship-detector.ts
\* detectExplicitReferences: the '#<id>' tokens of 6 to 10 letters and digits
\* that name an artifact of the store, in the order of the message
RECURSIVE Dedupe(_)
Dedupe(s) ==
    IF s = <<>> THEN <<>>
    ELSE <<Head(s)>> \o Dedupe(SelectSeq(Tail(s), LAMBDA x : x # Head(s)))

detectExplicitReferences(text, arts) ==
    LET found == SelectSeq(text, LAMBDA token :
                     token.k = "hash" /\ token.id \in HexIds /\ token.id \in DOMAIN arts)
    IN  Dedupe([i \in DOMAIN found |-> found[i].id])

\* typePatterns, the one-word names; the artifacts have no title of their own
typePatterns(type) ==
    CASE type = "ExecutionPlan" -> {"plan", "roadmap", "checklist"}
      [] type = "SystemStatusPanel" -> {"status", "health"}
      [] type = "CommandResultPanel" -> {"result", "analysis", "output"}
      [] OTHER -> {}

detectTypeReferences(text, arts, order) ==
    SelectSeq(order, LAMBDA id :
        \E i \in DOMAIN text :
            /\ IsWord(text[i], {"the", "that", "this", "my", "our"})
            /\ IsWord(TokenAt(text, i + 1), typePatterns(arts[id].type)))

\* inferRelationshipType: the patterns carry the g flag, so a test starts where
\* the last successful test of the same pattern ended and can miss a match;
\* the types it can return for a text
inferRelationshipType(text) ==
    LET Has(words) == \E i \in DOMAIN text : IsWord(text[i], words)
        Phrase(first, second) ==
            \E i \in DOMAIN text : IsWord(text[i], first) /\ IsWord(TokenAt(text, i + 1), second)
    IN  {"references"}
        \cup (IF Has({"requires", "needs"}) \/ Phrase({"depends", "relies", "based"}, {"on"})
              THEN {"depends_on"} ELSE {})
        \cup (IF Phrase({"derived", "created", "built", "extracted"}, {"from"})
              THEN {"derived_from"} ELSE {})
        \cup (IF Has({"contradicts", "overrides"}) \/ Phrase({"conflicts", "incompatible"}, {"with"})
              THEN {"conflicts_with"} ELSE {})
        \cup (IF Has({"like"}) \/ Phrase({"similar", "equivalent"}, {"to"}) \/ Phrase({"same"}, {"as"})
              THEN {"similar_to"} ELSE {})

\* detectRelationships: the (source, target) pairs, in order
detectRelationships(text, sourceArtifactId, arts, order) ==
    LET allRefs == Dedupe(detectExplicitReferences(text, arts)
                          \o detectTypeReferences(text, arts, order))
    IN  IF sourceArtifactId # "" /\ sourceArtifactId \in DOMAIN arts
        THEN LET targets == SelectSeq(allRefs, LAMBDA id : id # sourceArtifactId)
             IN  [i \in DOMAIN targets |->
                     [sourceId |-> sourceArtifactId, targetId |-> targets[i]]]
        ELSE IF Len(allRefs) >= 2
        THEN [i \in 1 .. Len(allRefs) - 1 |->
                 [sourceId |-> allRefs[i], targetId |-> allRefs[i + 1]]]
        ELSE <<>>

\* ------------------------------------------------ use-artifact-system.ts
RECURSIVE AddDetected(_, _, _, _, _, _)
\* detectedRels.forEach: a relationship is added unless the relationships of
\* the last render hold one of the same source and target
AddDetected(S, rendered, detected, type, n, t) ==
    IF detected = <<>> THEN [store |-> S, drawn |-> 0]
    ELSE LET rel == Head(detected)
             exists == \E i \in DOMAIN rendered :
                           /\ rendered[i].sourceId = rel.sourceId
                           /\ rendered[i].targetId = rel.targetId
             S1 == IF exists THEN S
                   ELSE addRelationship(S, rel.sourceId, rel.targetId, type, n, t)
             d == IF exists THEN 0 ELSE 1
             rest == AddDetected(S1, rendered, Tail(detected), type, n + d, t)
         IN  [store |-> rest.store, drawn |-> rest.drawn + d]

\* processMessage without its test of hasHydrated
processMessageUnguarded(S, artifactId, mutationIntent, text, order, relType, n, t) ==
    LET added == AddDetected(S, S.relationships,
                             detectRelationships(text, artifactId, S.artifacts, order),
                             relType, n, t)
    IN  IF artifactId = ""
        THEN [isMutation |-> FALSE, artifactId |-> "", intent |-> NoIntent,
              store |-> added.store, drawn |-> added.drawn]
        ELSE [isMutation |-> mutationIntent # NoIntent, artifactId |-> artifactId,
              intent |-> mutationIntent, store |-> added.store, drawn |-> added.drawn]

\* processMessage after its two detectors: what it returns, the store it
\* leaves and the ids it drew
processMessageWith(S, artifactId, mutationIntent, text, order, relType, n, t) ==
    LET added == AddDetected(S, S.relationships,
                             detectRelationships(text, artifactId, S.artifacts, order),
                             relType, n, t)
    IN  IF ~S.hasHydrated
        THEN [isMutation |-> FALSE, artifactId |-> "", intent |-> NoIntent,
              store |-> S, drawn |-> 0]
        ELSE IF artifactId = ""
        THEN [isMutation |-> FALSE, artifactId |-> "", intent |-> NoIntent,
              store |-> added.store, drawn |-> added.drawn]
        ELSE [isMutation |-> mutationIntent # NoIntent, artifactId |-> artifactId,
              intent |-> mutationIntent, store |-> added.store, drawn |-> added.drawn]

processMessage(S, text, order, relType, n, t) ==
    processMessageWith(S, detectArtifactReference(text, S.artifacts, order),
                       detectMutation(text, S.artifacts, order),
                       text, order, relType, n, t)

\* ------------------------------------------- cross-artifact-reasoning.ts
\* a.type.toLowerCase().includes(word), for the words of the commands
TypeIncludes(type, word) ==
    word \in (CASE type = "ExecutionPlan" -> {"execution", "plan"}
                [] type = "SystemStatusPanel" -> {"system", "status", "panel"}
                [] type = "CommandResultPanel" -> {"command", "result", "panel"}
                [] type = "Roadmap" -> {"roadmap", "road", "map"}
                [] OTHER -> {})

\* detectCrossArtifactQuery: the type of the query, "" for null
detectCrossArtifactQuery(text, arts) ==
    LET words == SelectSeq(text, LAMBDA token : token # Blank)
        Has(set) == \E i \in DOMAIN words : IsWord(words[i], set)
        Typed(i) == IF IsWord(TokenAt(words, i), {"the"}) /\ TokenAt(words, i + 1).k = "string"
                    THEN words[i + 1] ELSE TokenAt(words, i)
        OfType(token) == \E id \in DOMAIN arts :
                             token.k = "string" /\ TypeIncludes(arts[id].type, token.s)
        affect == \E i \in DOMAIN words :
                      /\ IsWord(words[i], {"which"})
                      /\ IsWord(TokenAt(words, i + 2), {"affect"})
                      /\ OfType(TokenAt(words, i + 1))
                      /\ OfType(Typed(i + 3))
        compare == \E i, j \in DOMAIN words :
                       /\ IsWord(words[i], {"compare"})
                       /\ j > i + 1 /\ j < Len(words)
                       /\ IsWord(words[j], {"to", "and", "with"})
        derived == \E i \in DOMAIN words :
                       /\ IsWord(words[i], {"based"})
                       /\ IsWord(TokenAt(words, i + 1), {"on"})
                       /\ OfType(Typed(i + 2))
    IN  IF Cardinality(DOMAIN arts) < 2 THEN ""
        ELSE IF affect THEN "analyze_impact"
        ELSE IF compare THEN "compare"
        ELSE IF Has({"conflict", "conflicts", "inconsistent"}) THEN "find_conflicts"
        ELSE IF derived THEN "derive"
        ELSE IF Has({"merge", "combine"}) THEN "merge"
        ELSE ""

\* ------------------------------------------------------------- page.tsx
\* handleGenerate after processMessage: the mutation it executes and the
\* request it sends to the model ("" when it sends none), with its context
handleGenerateWith(analysis, executed) ==
    LET Handled(result, request, store, drawn) ==
            [isMutation |-> analysis.isMutation, artifactId |-> analysis.artifactId,
             intent |-> analysis.intent, result |-> result, request |-> request,
             store |-> store, drawn |-> drawn]
    IN  IF ~analysis.isMutation
        THEN Handled("none", "artifactContext", analysis.store, analysis.drawn)
        ELSE IF executed.result = "success"
        THEN Handled("success", "sendThreadMessage", executed.store,
                     analysis.drawn + executed.drawn)
        ELSE IF executed.result = "throw"
        THEN Handled("throw", "", analysis.store, analysis.drawn)
        ELSE Handled("failure", "artifactContext", analysis.store, analysis.drawn)

executeAnalysis(analysis, n, t) ==
    IF analysis.isMutation
    THEN executeMutation(analysis.store, analysis.artifactId, analysis.intent.details,
                         n + analysis.drawn, t)
    ELSE [result |-> "failure", store |-> analysis.store, drawn |-> 0, set |-> FALSE]

handleAnalysis(analysis, n, t) == handleGenerateWith(analysis, executeAnalysis(analysis, n, t))

\* handleGenerate on a non-empty input of an idle thread
handleGenerate(S, text, order, relType, hasMessages, n, t) ==
    IF hasMessages /\ detectCrossArtifactQuery(text, S.artifacts) # ""
    THEN [isMutation |-> FALSE, artifactId |-> "", intent |-> NoIntent,
          result |-> "none", request |-> "crossArtifactContext",
          store |-> S, drawn |-> 0]
    ELSE handleAnalysis(processMessage(S, text, order, relType, n, t), n, t)

\* ------------------------------------------- the command session
StepC == Item(Str("Ship"), Str("complete"), Undef, Undef)
\* a plan of three steps: complete, pending, complete
ThreeSteps == <<StepB, StepA, StepC>>
CommandIds == {"a1", "a3"}
CommandState(id) == IF id = "a1" THEN Plan(Str("T"), Arr(ThreeSteps)) ELSE Plan(Str("N"), Undef)

Words(s) == [i \in DOMAIN s |-> Str(s[i])]
Commands ==
    { Words(<<"remove", "step">>) \o <<Num(2)>>,
      Words(<<"remove", "step">>) \o <<Num(3)>>,
      Words(<<"remove", "item">>) \o <<Num(3)>>,
      Words(<<"remove", "item">>) \o <<Num(2)>> \o Words(<<"from", "the", "plan">>),
      Words(<<"remove", "the", "last", "step">>),
      Words(<<"remove", "the", "last", "step", "from", "the", "plan">>),
      Words(<<"remove", "completed", "from", "the", "plan">>),
      Words(<<"in", "the", "plan", "change", "title", "to", "x">>),
      Words(<<"in", "the", "plan", "set", "", "to", "y">>),
      Words(<<"the", "plan", "depends", "on", "the", "status">>),
      Words(<<"compare", "the", "plan", "to", "the", "status">>) }

\* a hydrated store of one plan of three steps, alone or with a status panel
\* created before or after it
InitCommand ==
    /\ \E known \in {{"a1"}, CommandIds} :
           \E t \in [known -> 1 .. MaxClock] :
               artifacts = [id \in known |->
                               NewArtifact(id, ResolveType(id), CommandState(id),
                                           ARTIFACT_SCHEMAS(ResolveType(id)),
                                           Related(<<>>), t[id])]
    /\ mutations = <<>>
    /\ relationships = <<>>
    /\ hasHydrated = TRUE
    /\ storage = Persisted(Store)
    /\ hydration = "done"
    /\ timerArmed = FALSE
    /\ mounted = TRUE
    /\ now = MaxClock
    /\ ids = 0
    /\ last = Call("useArtifactHydration", "", "true")

\* the mutation detector is a function of the message and the artifacts
DetectMutation ==
    \E text \in Commands, order \in Orders(DOMAIN artifacts) :
        /\ Ready
        /\ last' = [op |-> "detectMutation", id |-> "", result |-> "intent",
                    text |-> text, intent |-> detectMutation(text, artifacts, order)]
        /\ UNCHANGED <<now, ids, hydration, timerArmed, mounted>>
        /\ NoSet

\* the store and the record a call of handleGenerate leaves
Generated(text, r) ==
    /\ ids + r.drawn <= MaxIds
    /\ r.result = "success" => artifacts[r.artifactId].version < MaxVersion
    /\ IF r.store # Store THEN SetStore(r.store) ELSE NoSet
    /\ ids' = ids + r.drawn
    /\ last' = [op |-> "handleGenerate", id |-> r.artifactId,
                result |-> r.result, text |-> text,
                isMutation |-> r.isMutation, intent |-> r.intent,
                request |-> r.request]

HandleGenerate ==
    \E text \in Commands, order \in Orders(DOMAIN artifacts), hasMessages \in BOOLEAN :
        \E relType \in inferRelationshipType(text) :
            /\ mounted
            /\ Generated(text, handleGenerate(Store, text, order, relType, hasMessages,
                                              ids, now))
            /\ UNCHANGED <<now, hydration, timerArmed, mounted>>

NextCommand == DetectMutation \/ HandleGenerate

SpecCommand == InitCommand /\ [][NextCommand]_vars

\* ------------------------------------------- the applier on any artifact
\* the states an artifact is created with: a plan with steps, an object with
\* no array field, null and a primitive
ApplyStates == {Plan(Str("T"), Arr(<<StepA, StepB>>)), Plan(Str("N"), Undef), Null, Str("s")}

\* intents, those with a missing itemIndex, property or value included
ApplyIntents ==
    { Intent("remove_item", TRUE, -1, "", Undef, FALSE),
      Intent("remove_item", TRUE, 5, "", Undef, FALSE),
      Intent("remove_item", FALSE, 0, "", Undef, FALSE),
      Intent("remove_item", FALSE, 0, "", Undef, TRUE),
      Intent("add_item", FALSE, 0, "", Str("Ship"), FALSE),
      Intent("update_item", TRUE, 0, "status", Str("complete"), FALSE),
      Intent("update_item", TRUE, 0, "", Item(Str("Plan"), Undef, Undef, Undef), FALSE),
      Intent("update_item", TRUE, 0, "", Undef, FALSE),
      Intent("update_item", TRUE, 1, "", Str("done"), FALSE),
      Intent("update_item", FALSE, 0, "", Arr(<<>>), FALSE),
      Intent("update_item", FALSE, 0, "completed", Bool(TRUE), FALSE),
      Intent("update_property", FALSE, 0, "title", Str("X"), FALSE),
      Intent("update_property", FALSE, 0, "owner", Str("X"), FALSE),
      Intent("reorder_items", TRUE, 1, "", Num(0), FALSE),
      Intent("reorder_items", TRUE, 4, "", Num(0), FALSE) }

InitApply ==
    /\ \E state \in ApplyStates :
           artifacts = [id \in {"a1"} |->
                           NewArtifact(id, TypeOf(id), state, Schema(TypeOf(id)),
                                       Related(<<>>), 1)]
    /\ mutations = <<>>
    /\ relationships = <<>>
    /\ hasHydrated = TRUE
    /\ storage = Persisted(Store)
    /\ hydration = "done"
    /\ timerArmed = FALSE
    /\ mounted = TRUE
    /\ now = 1
    /\ ids = 0
    /\ last = Call("useArtifactHydration", "", "true")

\* validateMutation(artifact, intent): its result, or the exception it throws
ValidateMutation ==
    \E artifactId \in DOMAIN artifacts, intent \in ApplyIntents :
        /\ Ready
        /\ last' = [op |-> "validateMutation", id |-> artifactId, intent |-> intent,
                    result |-> IF ValidateThrows(artifacts[artifactId].state, intent)
                               THEN "throw"
                               ELSE IF validateMutation(artifacts[artifactId], intent)
                               THEN "valid" ELSE "invalid"]
        /\ UNCHANGED <<now, ids, hydration, timerArmed, mounted>>
        /\ NoSet

\* an applier that writes into the array it read from the state
WriteTargetShared(intent) ==
    IF intent.type \in {"update_item", "reorder_items"} THEN "argument" ELSE "none"

\* the object the writes of an applier land on: array[index] = updatedItem and
\* the two splices write to the copy [...state[arrayField]]; the other
\* appliers build their arrays and objects with filter, slice and spread
WriteTarget(intent) ==
    IF intent.type \in {"update_item", "reorder_items"} THEN "copy" ELSE "none"

\* the artifact passed to applyMutation, as it is after the call
argumentAfter(artifact, intent, returned) ==
    IF returned.success /\ WriteTarget(intent) = "argument"
    THEN [artifact EXCEPT !.state = returned.newState]
    ELSE artifact

\* applyMutation(artifact, intent): it validates outside its try block
ApplyMutation ==
    \E artifactId \in DOMAIN artifacts, intent \in ApplyIntents :
        LET throws == ValidateThrows(artifacts[artifactId].state, intent)
            returned == applyMutation(artifacts[artifactId], intent, "user", ids, now)
        IN  /\ Ready
            /\ last' = [op |-> "applyMutation", id |-> artifactId, intent |-> intent,
                        result |-> IF throws THEN "throw"
                                   ELSE IF returned.success THEN "success" ELSE "failure",
                        returned |-> IF throws THEN Failure ELSE returned,
                        argument |-> IF throws THEN artifacts[artifactId]
                                     ELSE argumentAfter(artifacts[artifactId], intent,
                                                        returned)]
            /\ UNCHANGED <<now, ids, hydration, timerArmed, mounted>>
            /\ NoSet

ExecuteIntent ==
    \E artifactId \in DOMAIN artifacts, intent \in ApplyIntents :
        LET r == executeMutation(Store, artifactId, intent, ids, now)
        IN  /\ Ready
            /\ r.set => /\ artifacts[artifactId].version < MaxVersion
                        /\ ids + r.drawn <= MaxIds
            /\ IF r.set THEN SetStore(r.store) ELSE NoSet
            /\ ids' = ids + r.drawn
            /\ last' = [op |-> "executeMutation", id |-> artifactId, intent |-> intent,
                        result |-> r.result]
            /\ UNCHANGED <<now, hydration, timerArmed, mounted>>

NextApply == ValidateMutation \/ ApplyMutation \/ ExecuteIntent

SpecApply == InitApply /\ [][NextApply]_vars

\* ------------------------------------------- creation and auto-linking
\* TYPE_AFFINITIES[type]: relatesTo and defaultType, or none
TYPE_AFFINITIES(type) ==
    CASE type = "ExecutionPlan" ->
             [def |-> TRUE, defaultType |-> "references",
              relatesTo |-> {"RiskMatrix", "SystemStatusPanel", "CommandResultPanel"}]
      [] type = "RiskMatrix" ->
             [def |-> TRUE, defaultType |-> "references",
              relatesTo |-> {"ExecutionPlan", "SystemStatusPanel"}]
      [] type = "SystemStatusPanel" ->
             [def |-> TRUE, defaultType |-> "references",
              relatesTo |-> {"CommandResultPanel", "ExecutionPlan"}]
      [] type = "CommandResultPanel" ->
             [def |-> TRUE, defaultType |-> "derived_from",
              relatesTo |-> {"ExecutionPlan", "SystemStatusPanel"}]
      [] OTHER -> [def |-> FALSE, defaultType |-> "", relatesTo |-> {}]

\* detectTypeBasedRelationships: the targets, in the order of the entries of
\* existingArtifacts
detectTypeBasedRelationships(newArtifact, existingArtifacts, order) ==
    LET affinity == TYPE_AFFINITIES(newArtifact.type)
    IN  IF ~affinity.def THEN <<>>
        ELSE SelectSeq(order, LAMBDA id :
                 /\ id # newArtifact.id
                 /\ existingArtifacts[id].type \in affinity.relatesTo)

RECURSIVE AutoLink(_, _, _, _, _, _)
\* autoRelationships.forEach(rel => store.addRelationship(...))
AutoLink(S, sourceId, targets, type, n, t) ==
    IF targets = <<>> THEN S
    ELSE AutoLink(addRelationship(S, sourceId, Head(targets), type, n, t),
                  sourceId, Tail(targets), type, n + 1, t)

\* the facade's createArtifact: the artifact is added under the id it
\* returns, then linked to the artifacts of the render the callback closes over
systemCreateArtifact(S, rendered, order, id, type, state, schema, n, t) ==
    LET artifact == NewArtifact(id, type, state,
                                IF schema # Undef THEN schema ELSE ARTIFACT_SCHEMAS(type),
                                NoRelated, t)
        targets == detectTypeBasedRelationships(artifact, rendered, order)
    IN  [id |-> id, drawn |-> Len(targets),
         store |-> AutoLink(addArtifact(S, artifact), id, targets,
                            TYPE_AFFINITIES(type).defaultType, n, t)]

\* the facade's second definition of createArtifact: it returns the id of a
\* record it builds and stores nothing under it; store.createArtifact draws
\* the stored id
legacyCreateArtifact(S, id, storedId, type, state, schema, t) ==
    [id |-> id, drawn |-> 0, store |-> createArtifact(S, storedId, type, state, schema, t)]

\* the component names a message can render, one of them outside the table
LinkTypes == {"ExecutionPlan", "SystemStatusPanel", "CommandResultPanel", "Roadmap"}
\* the props of the component
LinkState == Plan(Str("N"), Undef)

\* the store and the record that calls of the facade's createArtifact leave:
\* created lists the ids returned with the types given, in the order of the calls
Captured(S, drawn, created) ==
    /\ ids + drawn <= MaxIds
    /\ SetStore(S)
    /\ ids' = ids + drawn
    /\ last' = [op |-> "createArtifact", id |-> created[Len(created)].id,
                result |-> "id", created |-> created]

\* handleCaptureArtifact for the one new message of a commit
CaptureArtifact ==
    \E id \in ResolveIds \ DOMAIN artifacts, type \in LinkTypes,
       order \in Orders(DOMAIN artifacts) :
        /\ Ready
        /\ Captured(systemCreateArtifact(Store, artifacts, order, id, type, LinkState,
                                         Schema(type), ids, now).store,
                    systemCreateArtifact(Store, artifacts, order, id, type, LinkState,
                                         Schema(type), ids, now).drawn,
                    <<[id |-> id, type |-> type]>>)
        /\ UNCHANGED <<now, hydration, timerArmed, mounted>>

\* two captures of one commit: both effects call the callback of the same
\* render, whose store.artifacts is the record of that render
secondCapture(first, rendered, order, id, type, n, t) ==
    [store |-> systemCreateArtifact(first.store, rendered, order, id, type, LinkState,
                                    Schema(type), n + first.drawn, t).store,
     drawn |-> first.drawn
               + systemCreateArtifact(first.store, rendered, order, id, type, LinkState,
                                      Schema(type), n + first.drawn, t).drawn]

CaptureArtifacts ==
    \E id1, id2 \in ResolveIds \ DOMAIN artifacts, type1, type2 \in LinkTypes,
       order \in Orders(DOMAIN artifacts) :
        /\ Ready
        /\ id1 # id2
        /\ Captured(secondCapture(systemCreateArtifact(Store, artifacts, order, id1, type1,
                                                       LinkState, Schema(type1), ids, now),
                                  artifacts, order, id2, type2, ids, now).store,
                    secondCapture(systemCreateArtifact(Store, artifacts, order, id1, type1,
                                                       LinkState, Schema(type1), ids, now),
                                  artifacts, order, id2, type2, ids, now).drawn,
                    <<[id |-> id1, type |-> type1], [id |-> id2, type |-> type2]>>)
        /\ UNCHANGED <<now, hydration, timerArmed, mounted>>

\* the second definition of the facade's createArtifact
LegacyCreateArtifact ==
    \E id, storedId \in ResolveIds \ DOMAIN artifacts, type \in LinkTypes :
        /\ Ready
        /\ SetStore(legacyCreateArtifact(Store, id, storedId, type, LinkState,
                                         Schema(type), now).store)
        /\ last' = [op |-> "legacyCreateArtifact", id |-> id, result |-> "id",
                    created |-> <<[id |-> id, type |-> type]>>]
        /\ UNCHANGED <<now, ids, hydration, timerArmed, mounted>>

\* artifacts are created and linked, and none is deleted
NextLink == CaptureArtifact \/ CaptureArtifacts \/ LegacyCreateArtifact \/ AddRelationship

SpecLink == InitHydrated /\ [][NextLink]_vars

\* ------------------------------------------- the fallback window
\* the read of the storage failed and the fallback timer of the hydration
\* hook has not fired yet; the artifacts are those captured from the thread's
\* messages meanwhile (a capture does not wait for hydration)
InitUnhydrated ==
    /\ \E known \in {{"a1"}, CommandIds} :
           \E t \in [known -> 1 .. MaxClock] :
               artifacts = [id \in known |->
                               NewArtifact(id, ResolveType(id), CommandState(id),
                                           ARTIFACT_SCHEMAS(ResolveType(id)),
                                           NoRelated, t[id])]
    /\ mutations = <<>>
    /\ relationships = <<>>
    /\ hasHydrated = FALSE
    /\ storage = NoDocument
    /\ hydration = "failed"
    /\ timerArmed = TRUE
    /\ mounted = TRUE
    /\ now = MaxClock
    /\ ids = 0
    /\ last = Call("useArtifactHydration", "", "false")

\* the store and the record a call of processMessage leaves
Processed(text, r) ==
    /\ ids + r.drawn <= MaxIds
    /\ IF r.store # Store THEN SetStore(r.store) ELSE NoSet
    /\ ids' = ids + r.drawn
    /\ last' = [op |-> "processMessage", id |-> r.artifactId,
                result |-> IF r.isMutation THEN "true" ELSE "false",
                text |-> text, intent |-> r.intent]

ProcessMessage ==
    \E text \in Commands, order \in Orders(DOMAIN artifacts) :
        \E relType \in inferRelationshipType(text) :
            /\ mounted
            /\ Processed(text, processMessage(Store, text, order, relType, ids, now))
            /\ UNCHANGED <<now, hydration, timerArmed, mounted>>

NextUnhydrated == ProcessMessage \/ TimerFire

SpecUnhydrated == InitUnhydrated /\ [][NextUnhydrated]_vars

\* ------------------------------------------- the relationship detector
\* RELATIONSHIP_PATTERNS: the type of each entry, in order
PatternTypes ==
    <<"references", "depends_on", "derived_from", "conflicts_with", "references",
      "similar_to">>

\* the matches of the p-th pattern in a message, each from a token to the
\* token after its last one
PatternMatches(p, text) ==
    LET One(words) == {<<i - 1, i>> : i \in {j \in DOMAIN text : IsWord(text[j], words)}}
        Two(first, second) ==
            {<<i - 1, i + 1>> : i \in {j \in DOMAIN text :
                                          /\ IsWord(text[j], first)
                                          /\ IsWord(TokenAt(text, j + 1), second)}}
    IN  CASE p = 1 -> {<<i - 1, i>> : i \in {j \in DOMAIN text :
                                                text[j].k = "hash" /\ text[j].id \in HexIds}}
          [] p = 2 -> One({"requires", "needs"}) \cup Two({"depends", "relies", "based"}, {"on"})
          [] p = 3 -> Two({"derived", "created", "built", "extracted"}, {"from"})
          [] p = 4 -> One({"contradicts", "overrides"})
                      \cup Two({"conflicts", "incompatible"}, {"with"})
          [] p = 5 -> One({"reference", "references", "mention", "mentions"})
                      \cup Two({"refers", "related"}, {"to"}) \cup Two({"see"}, {"also"})
          [] OTHER -> One({"like"}) \cup Two({"similar", "equivalent"}, {"to"})
                      \cup Two({"same"}, {"as"})

\* pattern.test(message) of a pattern with the g flag: the search starts at
\* the pattern's lastIndex, which a match moves to its end and a failure
\* resets
regexTest(p, text, lastIndex) ==
    LET later == {m \in PatternMatches(p, text) : m[1] >= lastIndex}
        first == CHOOSE m \in later : \A o \in later : m[1] <= o[1]
    IN  IF later = {} THEN [found |-> FALSE, lastIndex |-> 0]
        ELSE [found |-> TRUE, lastIndex |-> first[2]]

NoLastIndex == [p \in DOMAIN PatternTypes |-> 0]

RECURSIVE inferRelationshipTypeAt(_, _, _)
\* inferRelationshipType from the p-th pattern on: the type it returns and
\* the lastIndex it leaves in each pattern
inferRelationshipTypeAt(text, lastIndex, p) ==
    IF p > Len(PatternTypes) THEN [type |-> "references", lastIndex |-> lastIndex]
    ELSE IF regexTest(p, text, lastIndex[p]).found
    THEN [type |-> PatternTypes[p],
          lastIndex |-> [lastIndex EXCEPT ![p] = regexTest(p, text, lastIndex[p]).lastIndex]]
    ELSE inferRelationshipTypeAt(text, [lastIndex EXCEPT ![p] = 0], p + 1)

\* the messages given to the detector
DetectMessages ==
    { Words(<<"the", "plan", "depends", "on", "the", "status">>),
      Words(<<"this", "depends", "on">>) \o <<Hash("a3")>>,
      Words(<<"the", "status", "requires", "the", "plan">>),
      Words(<<"the", "plan", "is", "derived", "from", "the", "status">>),
      Words(<<"the", "plan", "conflicts", "with", "the", "status">>),
      Words(<<"the", "plan", "is", "similar", "to", "the", "status">>),
      Words(<<"see", "the", "plan", "and", "the", "status">>) }

\* the lastIndex of the patterns after the calls made so far; the module is
\* loaded with every lastIndex at 0
LastIndex == IF "lastIndex" \in DOMAIN last THEN last.lastIndex ELSE NoLastIndex

\* what a call of detectRelationships returns; it infers the type only when
\* the message refers to an artifact
Detected(text, sourceArtifactId, allRefs, pairs, inferred) ==
    [op |-> "detectRelationships", id |-> sourceArtifactId, result |-> "edges",
     text |-> text,
     edges |-> [i \in DOMAIN pairs |->
                   [sourceId |-> pairs[i].sourceId, targetId |-> pairs[i].targetId,
                    type |-> inferred.type]],
     lastIndex |-> IF allRefs = <<>> THEN LastIndex ELSE inferred.lastIndex]

DetectRelationships ==
    \E text \in DetectMessages, sourceArtifactId \in {"", "a1"},
       order \in Orders(DOMAIN artifacts) :
        /\ Ready
        /\ last' = Detected(text, sourceArtifactId,
                            Dedupe(detectExplicitReferences(text, artifacts)
                                   \o detectTypeReferences(text, artifacts, order)),
                            detectRelationships(text, sourceArtifactId, artifacts, order),
                            inferRelationshipTypeAt(text, LastIndex, 1))
        /\ UNCHANGED <<now, ids, hydration, timerArmed, mounted>>
        /\ NoSet

NextDetect == DetectRelationships

SpecDetect == InitCommand /\ [][NextDetect]_vars

\* ------------------------------------------- the facade's operations
\* the operations useArtifactSystem returns that create, edit, undo and remove
NextFacade ==
    \/ CreateArtifact
    \/ AddArtifact
    \/ ExecuteMutation
    \/ UndoLastMutation
    \/ DeleteArtifact
    \/ Clear

SpecFacade == InitHydrated /\ [][NextFacade]_vars

\* ------------------------------------------- a page session with clear
\* the session of Spec with the workspace's clear, undo and delete
NextSession ==
    \/ RenderHook
    \/ TimerFire
    \/ Rehydrate
    \/ RehydrateFails
    \/ Reload
    \/ CreateArtifact
    \/ ExecuteMutation
    \/ AddRelationship
    \/ Clear
    \/ UndoLastMutation
    \/ DeleteArtifact

SpecSession == Init /\ [][NextSession]_vars

\* ------------------------------------------- two commands in one render
\* useNLPMutations.attemptNLPMutation once its text is parsed: executeMutation
\* is given the artifacts of the render as its state and the store's
\* updateArtifact and addMutation
attemptNLPMutation(S, rendered, action, n, t) ==
    IF action.artifactId \notin DOMAIN rendered THEN Returned(S, "false")
    ELSE IF action.artifactId \notin DOMAIN S.artifacts THEN Returned(S, "false")
    ELSE IF nlpExecuteMutation([S EXCEPT !.artifacts = rendered], action, n, t).result # "true"
    THEN Returned(S, "false")
    ELSE Returned(
             [updateArtifact(S, action.artifactId,
                  nlpExecuteMutation([S EXCEPT !.artifacts = rendered], action, n, t)
                      .store.artifacts[action.artifactId].state, t)
              EXCEPT !.mutations =
                  nlpExecuteMutation([S EXCEPT !.artifacts = rendered], action, n, t)
                      .store.mutations],
             "true")

\* the executeMutation of the earlier facade: the artifact is read from the
\* artifacts of the render
legacyExecuteMutation(S, rendered, artifactId, intent, n, t) ==
    LET artifact == rendered[artifactId]
        result == applyMutation(artifact, intent, "user", n, t)
    IN  IF artifactId \notin DOMAIN rendered
        THEN [result |-> "failure", store |-> S, drawn |-> 0, set |-> FALSE]
        ELSE IF ValidateThrows(artifact.state, intent)
        THEN [result |-> "throw", store |-> S, drawn |-> 0, set |-> FALSE]
        ELSE IF ~result.success \/ result.newState = Undef
        THEN [result |-> "failure", store |-> S, drawn |-> 0, set |-> FALSE]
        ELSE [result |-> "success",
              store |-> addMutation(updateArtifact(S, artifactId, result.newState, t),
                                    result.mutation, RandomId(n + result.drawn + 1), t),
              drawn |-> result.drawn, set |-> TRUE]

\* the commands given in a row
BatchIntents ==
    { Intent("remove_item", TRUE, -1, "", Undef, FALSE),
      Intent("update_item", TRUE, 0, "status", Str("complete"), FALSE),
      Intent("update_property", FALSE, 0, "title", Str("X"), FALSE),
      Intent("reorder_items", TRUE, 0, "", Num(1), FALSE) }

\* two commands on one artifact have run in one callback: the store they
\* leave and what they were
Batch(op, artifactId, first, second, ok, S, drawn) ==
    /\ Ready
    /\ ok
    /\ artifacts[artifactId].version + 2 <= MaxVersion
    /\ ids + drawn <= MaxIds
    /\ SetStore(S)
    /\ ids' = ids + drawn
    /\ last' = [op |-> op, id |-> artifactId, result |-> "success",
                first |-> first, second |-> second]
    /\ UNCHANGED <<now, hydration, timerArmed, mounted>>

\* the second call of the facade's executeMutation, after the first
secondExecute(r1, artifactId, intent, n, t) ==
    executeMutation(r1.store, artifactId, intent, n + r1.drawn, t)

ExecuteTwice ==
    \E artifactId \in DOMAIN artifacts, first \in BatchIntents, second \in BatchIntents :
        Batch("executeMutation", artifactId, first, second,
              /\ executeMutation(Store, artifactId, first, ids, now).result = "success"
              /\ secondExecute(executeMutation(Store, artifactId, first, ids, now),
                               artifactId, second, ids, now).result = "success",
              secondExecute(executeMutation(Store, artifactId, first, ids, now),
                            artifactId, second, ids, now).store,
              executeMutation(Store, artifactId, first, ids, now).drawn
              + secondExecute(executeMutation(Store, artifactId, first, ids, now),
                              artifactId, second, ids, now).drawn)

\* the second call of the earlier executeMutation in the same render
secondLegacy(r1, rendered, artifactId, intent, n, t) ==
    legacyExecuteMutation(r1.store, rendered, artifactId, intent, n + r1.drawn, t)

LegacyExecuteTwice ==
    \E artifactId \in DOMAIN artifacts, first \in BatchIntents, second \in BatchIntents :
        Batch("legacyExecuteMutation", artifactId, first, second,
              /\ legacyExecuteMutation(Store, artifacts, artifactId, first, ids, now).result
                     = "success"
              /\ secondLegacy(legacyExecuteMutation(Store, artifacts, artifactId, first, ids, now),
                              artifacts, artifactId, second, ids, now).result = "success",
              secondLegacy(legacyExecuteMutation(Store, artifacts, artifactId, first, ids, now),
                           artifacts, artifactId, second, ids, now).store,
              legacyExecuteMutation(Store, artifacts, artifactId, first, ids, now).drawn
              + secondLegacy(legacyExecuteMutation(Store, artifacts, artifactId, first, ids, now),
                             artifacts, artifactId, second, ids, now).drawn)

AttemptNLPMutationTwice ==
    \E artifactId \in DOMAIN artifacts :
        \E first \in NlpActions(artifactId), second \in NlpActions(artifactId) :
            Batch("attemptNLPMutation", artifactId, first, second,
                  /\ findArrayField(artifacts[artifactId].state) # ""
                  /\ attemptNLPMutation(Store, artifacts, first, ids, now).result = "true"
                  /\ attemptNLPMutation(
                         attemptNLPMutation(Store, artifacts, first, ids, now).store,
                         artifacts, second, ids + 1, now).result = "true",
                  attemptNLPMutation(
                      attemptNLPMutation(Store, artifacts, first, ids, now).store,
                      artifacts, second, ids + 1, now).store,
                  2)

NextBatch == ExecuteTwice \/ LegacyExecuteTwice \/ AttemptNLPMutationTwice

SpecBatch == InitCommand /\ [][NextBatch]_vars

\* ------------------------------------------- processMessage, repeated
\* the second call of processMessage in the render of the first: the callback
\* closes over the artifacts and the relationships of the render, and
\* addRelationship is the store's
secondProcess(first, rendered, text, order, relType, n, t) ==
    LET artifactId == detectArtifactReference(text, rendered.artifacts, order)
        added == AddDetected(first.store, rendered.relationships,
                             detectRelationships(text, artifactId, rendered.artifacts, order),
                             relType, n + first.drawn, t)
    IN  IF ~rendered.hasHydrated THEN first
        ELSE [first EXCEPT !.store = added.store, !.drawn = first.drawn + added.drawn]

\* an event handler calls processMessage twice with one text
ProcessMessageTwice ==
    \E text \in Commands, order \in Orders(DOMAIN artifacts) :
        \E relType \in inferRelationshipType(text) :
            /\ mounted
            /\ Processed(text, secondProcess(
                                   processMessage(Store, text, order, relType, ids, now),
                                   Store, text, order, relType, ids, now))
            /\ UNCHANGED <<now, hydration, timerArmed, mounted>>

NextRepeat == ProcessMessage \/ ProcessMessageTwice

SpecRepeat == InitCommand /\ [][NextRepeat]_vars

\* ------------------------------------------------- the demo workspace
\* WORKSPACE_TEMPLATES 'saas-launch', by the first of its artifacts: the id is
\* the template's own ('saas-plan'), the version is 1
TemplateId == "a2"
TemplateArtifact(t) ==
    NewArtifact(TemplateId, "ExecutionPlan", InitialState("a1"),
                ARTIFACT_SCHEMAS("ExecutionPlan"), NoRelated, t)

\* page.tsx applyTemplate(templateId, { silent: true }): hasExisting is read
\* from the rendered facade; clear() and addArtifact act on the store
applyTemplate(S, rendered, t) ==
    addArtifact(IF DOMAIN rendered.artifacts # {} THEN clear(S) ELSE S,
                TemplateArtifact(t))

\* a returning visit: the storage holds the saved workspace of one plan, the
\* key 'omniui_auto_demo' is not in the storage, the store was just created
SavedWork ==
    createArtifact([artifacts |-> NoArtifacts, mutations |-> <<>>,
                    relationships |-> <<>>, hasHydrated |-> TRUE],
                   "a1", TypeOf("a1"), InitialState("a1"), Schema(TypeOf("a1")), 1)

InitSaved ==
    /\ artifacts = NoArtifacts
    /\ mutations = <<>>
    /\ relationships = <<>>
    /\ hasHydrated = FALSE
    /\ storage = Persisted(SavedWork)
    /\ hydration = "pending"
    /\ timerArmed = FALSE
    /\ mounted = FALSE
    /\ now \in 1 .. MaxClock
    /\ ids = 0
    /\ last = Call("create", "", "void")

\* the auto-demo effect of the page: it runs after a render that saw the store
\* hydrated and empty. It sets 'omniui_auto_demo' as it loads the template;
\* in a session without clear, delete or reload the store is never empty
\* again after the load, so the key's test is subsumed by the count's.
AutoDemo ==
    /\ Ready
    /\ DOMAIN artifacts = {}
    /\ SetStore(applyTemplate(Store, Store, now))
    /\ last' = Call("applyTemplate", TemplateId, "void")
    /\ UNCHANGED <<now, ids, hydration, timerArmed, mounted>>

\* one page load over a saved workspace: the storage read, the fallback
\* timer, the auto-demo effect and the commands of the user
NextDemo ==
    \/ RenderHook
    \/ TimerFire
    \/ Rehydrate
    \/ RehydrateFails
    \/ AutoDemo
    \/ ExecuteMutation
    \/ UndoLastMutation
    \/ Tick

SpecDemo == InitSaved /\ [][NextDemo]_vars

\* ------------------------------------------------------------------ claims
\* C1 -- version monotonicity: a successful executeMutation on an artifact
\* takes its version to the version before plus exactly 1, so N of them in a
\* row add N; an executeMutation that fails or throws leaves every artifact,
\* its version included, as it was.
VersionMonotonicity ==
    [][\A id \in ArtifactIds :
          (last'.op = "executeMutation" /\ last'.id = id) =>
              IF last'.result = "success"
              THEN /\ id \in DOMAIN artifacts
                   /\ id \in DOMAIN artifacts'
                   /\ artifacts'[id].version = artifacts[id].version + 1
              ELSE artifacts' = artifacts]_vars

\* a second successful command in a row has taken an artifact from version 1
\* to MaxVersion
VersionMonotonicityWitness ==
    /\ last.op = "executeMutation"
    /\ last.result = "success"
    /\ last.id \in DOMAIN artifacts
    /\ artifacts[last.id].version = MaxVersion
    /\ Len(getMutations(Store, last.id)) = MaxVersion - 1

\* C2 -- undo inverts the state at the mutated path: when executeMutation has
\* taken an artifact's state from S0 to S1 with the record M and
\* undoLastMutation then succeeds, the state it leaves is of the shape of S1,
\* its field at M.path is the one of S0 and its other fields are those of S1;
\* the state is never replaced by previousValue as a whole.
UndoInvertsAtPath ==
    [][\A id \in ArtifactIds :
          (last'.op = "executeMutation" /\ last'.id = id /\ last'.result = "success") =>
              LET S0 == artifacts[id].state
                  S1 == artifacts'[id].state
                  M == LastMutationOf(Store', id)
                  undone == undoLastMutation(Store', id, now')
                  S2 == undone.store.artifacts[id].state
              IN  undone.result = "true" =>
                      /\ DOMAIN S2 = DOMAIN S1
                      /\ \A f \in DOMAIN S1 \ {"k"} :
                             S2[f] = IF f = M.path[1] THEN S0[f] ELSE S1[f]]_vars

\* C3 -- a successful undoLastMutation(id) adds exactly 1 to the artifact's
\* version and removes from the log exactly one record, the last one in log
\* order whose artifactId is id; the other records, those that share the
\* removed record's id included, keep their order, and the other artifacts
\* are unchanged.
UndoRemovesOneRecord ==
    [][\A id \in ArtifactIds :
          (last'.op = "undoLastMutation" /\ last'.id = id /\ last'.result = "true") =>
              LET i == CHOOSE i \in DOMAIN mutations :
                           /\ mutations[i].artifactId = id
                           /\ \A j \in DOMAIN mutations :
                                  j > i => mutations[j].artifactId # id
              IN  /\ artifacts'[id].version = artifacts[id].version + 1
                  /\ mutations' = [j \in 1 .. Len(mutations) - 1 |->
                                      IF j < i THEN mutations[j] ELSE mutations[j + 1]]
                  /\ DOMAIN artifacts' = DOMAIN artifacts
                  /\ \A other \in DOMAIN artifacts \ {id} :
                         artifacts'[other] = artifacts[other]]_vars

\* C4 -- undoLastMutation(id) returns false and leaves artifacts, mutations
\* and relationships unchanged when the artifact does not exist, when it has
\* no record in the log, and when its last record has an undefined
\* previousValue.
UndoRefused ==
    [][\A id \in ArtifactIds :
          ( /\ last'.op = "undoLastMutation"
            /\ last'.id = id
            /\ \/ id \notin DOMAIN artifacts
               \/ getMutations(Store, id) = <<>>
               \/ LastMutationOf(Store, id).previousValue = Undef ) =>
              /\ last'.result = "false"
              /\ artifacts' = artifacts
              /\ mutations' = mutations
              /\ relationships' = relationships]_vars

\* undo was refused for an artifact whose last record has no previousValue
UndoRefusedWitness ==
    /\ last.op = "undoLastMutation"
    /\ last.result = "false"
    /\ last.id \in DOMAIN artifacts
    /\ getMutations(Store, last.id) # <<>>
    /\ LastMutationOf(Store, last.id).previousValue = Undef

\* C5 -- soft failure on unknown ids: a store operation called with an
\* artifact id that is not in the store (updateArtifact, deleteArtifact,
\* undoLastMutation, addMutation, addRelationship from an unknown source,
\* getRelated, getMutations) does not throw and leaves the artifacts, the
\* mutation log and the relationship list unchanged.
UnknownIdIsNoOp ==
    [][( /\ last'.op \in {"updateArtifact", "deleteArtifact", "undoLastMutation",
                          "addMutation", "addRelationship", "getRelated", "getMutations"}
         /\ last'.id \notin DOMAIN artifacts ) =>
           /\ last'.result # "throw"
           /\ artifacts' = artifacts
           /\ mutations' = mutations
           /\ relationships' = relationships]_vars

\* C6 -- deleteArtifact(id) removes the artifact and every record of the log
\* whose artifactId is id; the other artifacts are unchanged and the other
\* records are unchanged and in their order.
DeleteRemovesOwnedHistory ==
    [][\A id \in ArtifactIds :
          (last'.op = "deleteArtifact" /\ last'.id = id) =>
              /\ DOMAIN artifacts' = DOMAIN artifacts \ {id}
              /\ \A other \in DOMAIN artifacts \ {id} : artifacts'[other] = artifacts[other]
              /\ mutations' = SelectSeq(mutations, LAMBDA m : m.artifactId # id)]_vars

\* an artifact was deleted, its records are gone and another artifact's
\* record is still in the log
DeleteRemovesOwnedHistoryWitness ==
    /\ last.op = "deleteArtifact"
    /\ last.id \notin DOMAIN artifacts
    /\ storage.k = "document"
    /\ mutations # <<>>
    /\ \E other \in DOMAIN artifacts : getMutations(Store, other) = mutations

ReadsReportLoading ==
    ~hasHydrated =>
        /\ getContextString(Store) # EmptyText
        /\ useArtifactContextHelper(Store) = "loading"
        /\ getAllArtifacts(Store) # getAllArtifacts(clear(Store))
        /\ \A id \in ArtifactIds : getArtifact(Store, id) # getArtifact(clear(Store), id)

\* C9 -- hydration always completes: once the hydration hook is mounted,
\* hasHydrated becomes true, by the fallback timer when the storage is never
\* read (the timer callback is taken to run once it is armed).
HydrationCompletes == mounted ~> hasHydrated

\* the timer has set hasHydrated while the storage was not read
HydrationCompletesWitness ==
    /\ mounted
    /\ hasHydrated
    /\ hydration # "done"
    /\ last.op = "timer"

\* C10 -- round trip: partialize, the storage and the rehydration give back
\* the store's artifact ids, and for each artifact its state, version,
\* createdAt, updatedAt and relatedIds, the mutation log and the relationship
\* list, and a schema on every artifact: the registry's for a known type, the
\* placeholder for an unknown one.
RoundTripPersistence ==
    LET R == Rehydrated(Store, Persisted(Store))
    IN  /\ DOMAIN R.artifacts = DOMAIN artifacts
        /\ \A id \in DOMAIN artifacts :
               /\ R.artifacts[id].state = artifacts[id].state
               /\ R.artifacts[id].version = artifacts[id].version
               /\ R.artifacts[id].createdAt = artifacts[id].createdAt
               /\ R.artifacts[id].updatedAt = artifacts[id].updatedAt
               /\ R.artifacts[id].relatedIds = artifacts[id].relatedIds
               /\ R.artifacts[id].schema =
                      IF artifacts[id].type \in RegistryTypes
                      THEN Schema(artifacts[id].type) ELSE ZAny
        /\ R.mutations = mutations
        /\ R.relationships = relationships

\* C11 -- write-through persistence: when a state-changing store action
\* (createArtifact, addArtifact, updateArtifact, deleteArtifact, addMutation,
\* undoLastMutation, addRelationship, clear, alone or as the calls of
\* executeMutation and of the inline editor) has completed, the persisted
\* document equals the projection of the state in memory onto the artifacts
\* without schema, the mutations and the relationships.
WriteThroughPersistence ==
    [][( /\ last'.op \in {"createArtifact", "addArtifact", "updateArtifact",
                          "deleteArtifact", "addMutation", "undoLastMutation",
                          "addRelationship", "clear", "executeMutation", "handleSave"}
         /\ Store' # Store ) =>
           storage' = partialize(Store')]_vars

\* C12 -- reference resolution priority: on a non-empty store resolveReference
\* returns the result of the first strategy that matches, in the order (1) an
\* explicit '#id' or 'artifact id' token that names an artifact of the store,
\* (2) first/second/third by creation time ascending, (3) last = newest and
\* previous = second newest, (4) the newest artifact of a type the keyword
\* maps to, (5) for this/that/it the last entry of the recency list if it is
\* in the store, else the newest artifact; it returns none on an empty store
\* and when no strategy matches.
ResolutionPriority ==
    last.op = "resolveReference" =>
        LET m == last.message
            result == last.id
            n == Cardinality(DOMAIN artifacts)
            Older(id) == {o \in DOMAIN artifacts :
                              artifacts[o].createdAt < artifacts[id].createdAt}
            Newer(id) == {o \in DOMAIN artifacts :
                              artifacts[o].createdAt > artifacts[id].createdAt}
            KthOldest(k) == {id \in DOMAIN artifacts :
                                 Cardinality(Older(id)) < k /\ n - Cardinality(Newer(id)) >= k}
            KthNewest(k) == {id \in DOMAIN artifacts :
                                 Cardinality(Newer(id)) < k /\ n - Cardinality(Older(id)) >= k}
            explicit == {m.hash, m.word} \cap DOMAIN artifacts
            ordinal == (IF "first" \in m.ordinals THEN KthOldest(1) ELSE {})
                       \cup (IF "second" \in m.ordinals /\ n > 1 THEN KthOldest(2) ELSE {})
                       \cup (IF "third" \in m.ordinals /\ n > 2 THEN KthOldest(3) ELSE {})
            recency == (IF "last" \in m.recency THEN KthNewest(1) ELSE {})
                       \cup (IF "previous" \in m.recency /\ n > 1 THEN KthNewest(2) ELSE {})
            typed == {id \in DOMAIN artifacts : artifacts[id].type \in typeMap(m.keyword)}
            newestTyped == {id \in typed : typed \cap Newer(id) = {}}
            hinted == IF last.recent # <<>> /\ last.recent[Len(last.recent)] \in DOMAIN artifacts
                      THEN {last.recent[Len(last.recent)]} ELSE KthNewest(1)
        IN  IF n = 0 THEN result = ""
            ELSE IF explicit # {} THEN result \in explicit
            ELSE IF ordinal # {} THEN result \in ordinal
            ELSE IF recency # {} THEN result \in recency
            ELSE IF m.keyword # "" /\ typed # {} THEN result \in newestTyped
            ELSE IF m.pronoun THEN result \in hinted
            ELSE result = ""


\* C13: a command that names the 1-indexed position k ('remove step 3',
\* 'remove item 3') yields an intent with the 0-indexed itemIndex k - 1, and
\* a removal of 'last' (itemIndex -1) removes the element that is last in
\* the array when the mutation is applied and records it as previousValue
IndexArithmetic ==
    [][LET NamedPosition(text) ==
               LET at == Leftmost({i \in DOMAIN text :
                                       /\ IsWord(text[i], {"remove", "delete"})
                                       /\ IsWord(TokenAt(text, i + 1), {"item", "step"})
                                       /\ IsNumber(TokenAt(text, i + 2))})
               IN  IF at = 0 THEN 0 ELSE text[at + 2].n
       IN  /\ (last'.op = "detectMutation" /\ NamedPosition(last'.text) # 0)
                => /\ last'.intent.details.type = "remove_item"
                   /\ last'.intent.details.hasIndex
                   /\ last'.intent.details.itemIndex = NamedPosition(last'.text) - 1
           /\ (/\ last'.op = "handleGenerate"
               /\ last'.result = "success"
               /\ last'.intent.details = Details("remove_item", TRUE, -1, "", Undef, FALSE))
                => LET array == artifacts[last'.id].state.steps.elems
                   IN  /\ artifacts'[last'.id].state.steps.elems
                              = SubSeq(array, 1, Len(array) - 1)
                       /\ mutations'[Len(mutations')].previousValue = array[Len(array)]]_vars

\* C14: in a hydrated store, a command that matches a mutation pattern,
\* resolves to an existing artifact and names an index in bounds is reported
\* by processMessage as a mutation with an artifactId and an intent, and
\* executeMutation succeeds; on a single plan of three steps at version 1,
\* 'remove step 2' leaves the first and third steps at version 2, with one
\* new remove_item record whose previousValue is the second step
LocalMutationEndToEnd ==
    [][LET text == last'.text
           arts == artifacts
           Target(order) == resolveReference(Features(text), arts, order, <<>>)
           details == MUTATION_PATTERNS(text)
           Resolves == \E order \in Orders(DOMAIN arts) : Target(order) \in DOMAIN arts
           InBounds == \A order \in Orders(DOMAIN arts) :
                           Target(order) \in DOMAIN arts
                               => /\ ~ValidateThrows(arts[Target(order)].state, details)
                                  /\ validateMutation(arts[Target(order)], details)
           single == /\ DOMAIN arts = {"a1"}
                     /\ arts["a1"].version = 1
                     /\ arts["a1"].state.steps = Arr(ThreeSteps)
       IN  (last'.op = "handleGenerate" /\ hasHydrated
                /\ last'.request # "crossArtifactContext")
                => /\ (details # NoDetails /\ Resolves /\ InBounds)
                       => /\ last'.isMutation
                          /\ last'.id \in DOMAIN arts
                          /\ last'.intent # NoIntent
                          /\ last'.result = "success"
                   /\ (single /\ text = Words(<<"remove", "step">>) \o <<Num(2)>>)
                       => /\ artifacts'["a1"].state.steps = Arr(<<StepB, StepC>>)
                          /\ artifacts'["a1"].version = 2
                          /\ Len(mutations') = Len(mutations) + 1
                          /\ mutations'[Len(mutations')].operation = "remove_item"
                          /\ mutations'[Len(mutations')].previousValue = StepA]_vars

\* C15: when processMessage reports a mutation and executeMutation returns
\* success, the command handler issues no AI request (sendThreadMessage)
\* for that command
LocalMutationSendsNothing ==
    (last.op = "handleGenerate" /\ last.isMutation /\ last.result = "success")
        => last.request = ""

\* C16: a remove_item with a condition removes every element of the array
\* that satisfies the predicate in one operation (one version bump, one
\* record), keeps the other elements in their order, and records the removed
\* elements, in their order, as previousValue
ConditionRemovesAllMatching ==
    [][(/\ last'.op = "handleGenerate"
        /\ last'.result = "success"
        /\ last'.intent.details.type = "remove_item"
        /\ last'.intent.details.condition)
            => LET id == last'.id
                   array == artifacts[id].state.steps.elems
               IN  /\ artifacts'[id].state.steps
                          = Arr(SelectSeq(array, LAMBDA x : ~Completed(x)))
                   /\ artifacts'[id].version = artifacts[id].version + 1
                   /\ Len(mutations') = Len(mutations) + 1
                   /\ mutations'[Len(mutations')].operation = "remove_item"
                   /\ mutations'[Len(mutations')].artifactId = id
                   /\ mutations'[Len(mutations')].previousValue
                          = Arr(SelectSeq(array, LAMBDA x : Completed(x)))]_vars
ConditionRemovesAllMatchingWitness ==
    /\ last.op = "handleGenerate"
    /\ last.result = "success"
    /\ last.intent.details.condition
    /\ artifacts["a1"].state.steps = Arr(<<StepA>>)
    /\ artifacts["a1"].version = 2
    /\ Len(mutations) = 1
    /\ mutations[1].previousValue = Arr(<<StepB, StepC>>)

\* C19: update_property never introduces a field: a command parsed as
\* update_property, with whatever property name the text gives (the empty
\* name included), leaves the set of top-level keys of the artifact's state
\* as it was, and succeeds only if the state already has the named property
NoImplicitFields ==
    [][(/\ last'.op = "handleGenerate"
        /\ last'.isMutation
        /\ last'.intent.details.type = "update_property")
            => LET state == artifacts[last'.id].state
               IN  /\ DOMAIN artifacts'[last'.id].state = DOMAIN state
                   /\ last'.result = "success"
                          => last'.intent.details.property \in DOMAIN state]_vars

ApplierNeverThrows ==
    last.op \in {"validateMutation", "applyMutation", "executeMutation"}
        => last.result # "throw"

\* C20: applyMutation of an update_item intent that carries neither a
\* property nor a non-array object value returns success = false and no
\* newState, and executeMutation leaves the store unchanged; it is never a
\* successful no-op
AmbiguousUpdateIsError ==
    [][(/\ last'.op \in {"applyMutation", "executeMutation"}
        /\ last'.intent.type = "update_item"
        /\ last'.intent.property = ""
        /\ last'.intent.value.k # "item")
            => /\ last'.result = "failure"
               /\ last'.op = "applyMutation" => last'.returned.newState = Undef
               /\ artifacts' = artifacts
               /\ mutations' = mutations]_vars

\* C21: when the facade's createArtifact adds an artifact of type T, then for
\* every artifact that already exists and whose type is in the affinity
\* entry of T, a relationship from the new artifact to it, of the entry's
\* default type, is added, and never an edge from the new artifact to itself
AutoLinkOnCreate ==
    [][last'.op = "createArtifact"
        => LET created == last'.created
               added == SubSeq(relationships', Len(relationships) + 1, Len(relationships'))
               Existing(k) == DOMAIN artifacts \cup {created[j].id : j \in 1 .. k - 1}
           IN  /\ \A k \in DOMAIN created :
                      \A e \in Existing(k) :
                          artifacts'[e].type \in TYPE_AFFINITIES(created[k].type).relatesTo
                              => \E i \in DOMAIN added :
                                     /\ added[i].sourceId = created[k].id
                                     /\ added[i].targetId = e
                                     /\ added[i].type
                                            = TYPE_AFFINITIES(created[k].type).defaultType
               /\ \A i \in DOMAIN added : added[i].sourceId # added[i].targetId]_vars

\* C22: createArtifact returns the id under which the artifact is stored:
\* right after the call getArtifact(id) is the new record, with the type and
\* state given and version 1, and no artifact that existed before has been
\* replaced or changed
CreateReturnsStoredId ==
    [][last'.op \in {"createArtifact", "legacyCreateArtifact"}
        => /\ \A k \in DOMAIN last'.created :
                  LET artifact == getArtifact(Store', last'.created[k].id)
                  IN  /\ artifact # Undef
                      /\ artifact.id = last'.created[k].id
                      /\ artifact.type = last'.created[k].type
                      /\ artifact.state = LinkState
                      /\ artifact.version = 1
           /\ \A e \in DOMAIN artifacts :
                  e \in DOMAIN artifacts' /\ artifacts'[e] = artifacts[e]]_vars

\* C23: every relationship's sourceId and targetId is the id of an artifact
\* that is in the store now or was in it earlier; where no artifact is ever
\* deleted or cleared, that is an artifact in the store now
RelationshipEndpointsExist ==
    \A i \in DOMAIN relationships :
        /\ relationships[i].sourceId \in DOMAIN artifacts
        /\ relationships[i].targetId \in DOMAIN artifacts

\* C24: relatedIds is a faithful cache of the relationship list: for every
\* artifact a of the store, a.relatedIds holds exactly the targetIds of the
\* relationships whose sourceId is a.id, as a multiset, and getRelated(a)
\* returns no missing artifact
RelatedIdsMirrorRelationships ==
    \A a \in DOMAIN artifacts :
        LET related == IF artifacts[a].relatedIds.def THEN artifacts[a].relatedIds.ids
                       ELSE <<>>
            targets == SelectSeq(relationships, LAMBDA r : r.sourceId = a)
        IN  /\ \A id \in ArtifactIds \cup Range(related) :
                   Cardinality({i \in DOMAIN related : related[i] = id})
                       = Cardinality({i \in DOMAIN targets : targets[i].targetId = id})
            /\ Range(getRelated(Store, a)) \subseteq DOMAIN artifacts

IndexBounds ==
    LET intent == last.intent
        array == artifacts[last.id].state.steps.elems
        index == ResolveIndex(array, intent.itemIndex)
        InBounds == intent.hasIndex /\ index >= 0 /\ index <= Len(array) - 1
        after == last.returned.newState.steps.elems
    IN  /\ (/\ last.op \in {"validateMutation", "applyMutation"}
            /\ last.result \in {"valid", "success"}
            /\ intent.type \in {"remove_item", "update_item"}
            /\ ~intent.condition)
           => InBounds
        /\ (/\ last.op = "applyMutation"
            /\ last.result = "success"
            /\ intent.type = "update_item")
           => /\ InBounds
              /\ Len(after) = Len(array)
              /\ \A i \in DOMAIN array : i # index + 1 => after[i] = array[i]

\* C27: every successful reorder_items on an array of length n yields an array
\* of length n that holds the element formerly at fromIndex at toIndex and the
\* other elements in their former relative order, with no undefined element
ReorderIsMove ==
    LET intent == last.intent
        array == artifacts[last.id].state.steps.elems
        after == last.returned.newState.steps.elems
        fromIndex == intent.itemIndex
        toIndex == intent.value.n
        Others(s, i) == Slice(s, 0, i) \o Slice(s, i + 1, Len(s))
    IN  (/\ last.op = "applyMutation"
         /\ last.result = "success"
         /\ intent.type = "reorder_items")
        => /\ Len(after) = Len(array)
           /\ \A i \in DOMAIN after : after[i] # Undef
           /\ fromIndex >= 0 /\ fromIndex < Len(array)
           /\ toIndex >= 0 /\ toIndex < Len(array)
           /\ after[toIndex + 1] = array[fromIndex + 1]
           /\ Others(after, toIndex) = Others(array, fromIndex)

LoggedChangeIsInvertible ==
    [][last'.op \in {"executeMutation", "nlpExecuteMutation"}
       => \A id \in DOMAIN artifacts :
              (id \in DOMAIN artifacts' /\ artifacts'[id].state # artifacts[id].state)
              => /\ Len(mutations') = Len(mutations) + 1
                 /\ SubSeq(mutations', 1, Len(mutations)) = mutations
                 /\ mutations'[Len(mutations')].artifactId = id
                 /\ mutations'[Len(mutations')].previousValue # Undef]_vars

\* C30: every edge detectRelationships returns has the type of the verb of
\* the message (depends on, requires: depends_on; derived from, built from:
\* derived_from; conflicts with, contradicts: conflicts_with; similar to,
\* like: similar_to) and references only when the message has no such verb,
\* also when the artifact is referred to by '#id'
VerbGivesType ==
    LET Verb(p) == PatternMatches(p, last.text) # {}
        verbType == IF Verb(2) THEN "depends_on"
                    ELSE IF Verb(3) THEN "derived_from"
                    ELSE IF Verb(4) THEN "conflicts_with"
                    ELSE IF Verb(6) THEN "similar_to"
                    ELSE "references"
    IN  last.op = "detectRelationships"
        => \A i \in DOMAIN last.edges : last.edges[i].type = verbType

\* C31: a message that names an artifact of the store by '#' and its id
\* resolves to that id, whatever the shape of the id (eight hex digits of the
\* facade, base 36 of shortId, a template's name), and a message that names
\* an id that is not in the store never resolves to it
StoredIdIsAddressable ==
    last.op = "resolveReference" /\ last.message.hash # ""
    => /\ last.message.hash \in DOMAIN artifacts => last.id = last.message.hash
       /\ last.message.hash \notin DOMAIN artifacts => last.id # last.message.hash

\* C32: for every artifact id that stays in the store, the version is at
\* least 1 and no store operation decreases it, and createdAt never changes
VersionNeverGoesDown ==
    [][\A id \in (DOMAIN artifacts) \cap (DOMAIN artifacts') :
          /\ artifacts[id].version >= 1
          /\ artifacts'[id].version >= artifacts[id].version
          /\ artifacts'[id].createdAt = artifacts[id].createdAt]_vars

\* C33: for every artifact the number of records of the log with its id is
\* at most version - 1 and equals version - 1 minus twice the number of
\* successful undos on it since its creation: the difference is 0 when the
\* artifact enters the store, grows by 2 with each successful undo on it and
\* is left as it is by every other operation
VersionBoundsLog ==
    [][LET Slack(S, id) == S.artifacts[id].version - 1 - Len(getMutations(S, id))
           Undone(id) == /\ last'.op = "undoLastMutation"
                         /\ last'.id = id
                         /\ last'.result = "true"
       IN  \A id \in DOMAIN artifacts' :
               /\ Slack(Store', id) >= 0
               /\ id \notin DOMAIN artifacts => Slack(Store', id) = 0
               /\ id \in DOMAIN artifacts =>
                      Slack(Store', id) = Slack(Store, id) + (IF Undone(id) THEN 2 ELSE 0)]_vars

\* C34: once hasHydrated is true it stays true in every later state of the
\* store (a reload creates another store), under every store action, clear
\* included, under the rehydration callback and under the fallback timer;
\* the timer's callback changes no field of the store but hasHydrated, and
\* changes nothing when the store is hydrated by then
HydrationFlagIsMonotone ==
    [][/\ (hasHydrated /\ last'.op # "create") => hasHydrated'
       /\ last'.op = "timer" =>
              /\ artifacts' = artifacts
              /\ mutations' = mutations
              /\ relationships' = relationships
              /\ hasHydrated'
              /\ hasHydrated => storage' = storage]_vars
\* the timer of a render fires after the storage was read, on a store that
\* holds the artifacts of the document
HydrationFlagIsMonotoneWitness ==
    /\ last.op = "timer"
    /\ hydration = "done"
    /\ hasHydrated
    /\ DOMAIN artifacts # {}
    /\ storage # NoDocument

\* C35: when two commands on one artifact are executed one after the other
\* with no render in between, by the facade's executeMutation, by
\* attemptNLPMutation or by the earlier executeMutation, the state they leave
\* is the second change applied to the result of the first, and the version
\* has grown by 2
NoLostUpdate ==
    [][LET id == last'.id
           afterFirst ==
               IF last'.op = "attemptNLPMutation"
               THEN nlpExecuteMutation(Store, last'.first, ids, now).store.artifacts[id].state
               ELSE applyMutation(artifacts[id], last'.first, "user", ids, now).newState
           afterBoth ==
               IF last'.op = "attemptNLPMutation"
               THEN nlpExecuteMutation([Store EXCEPT !.artifacts[id].state = afterFirst],
                                       last'.second, ids, now).store.artifacts[id].state
               ELSE applyMutation([artifacts[id] EXCEPT !.state = afterFirst],
                                  last'.second, "user", ids, now).newState
       IN  last'.op \in {"executeMutation", "attemptNLPMutation", "legacyExecuteMutation"}
           => /\ artifacts'[id].state = afterBoth
              /\ artifacts'[id].version = artifacts[id].version + 2]_vars

\* C36: whenever processMessage returns isMutation = true, the artifactId it
\* returns, resolved from the matched part of the message, is the artifactId
\* of the intent, resolved from the whole message
ReportedTargetIsMutated ==
    (last.op = "processMessage" /\ last.result = "true")
    => last.id = last.intent.artifactId

\* C37: detectRelationships returns the same edges for the same message,
\* source and artifacts on every call, whatever calls were made before: the
\* type of its edges is the one a first call gives
DetectionIsDeterministic ==
    last.op = "detectRelationships"
    => \A i \in DOMAIN last.edges :
           last.edges[i].type = inferRelationshipTypeAt(last.text, NoLastIndex, 1).type

\* C38: however often processMessage is called with one text on the same
\* artifacts, the relationships hold at most one edge for each pair of a
\* source and a target, and no relatedIds names a target twice
NoDuplicateEdges ==
    /\ \A i, j \in DOMAIN relationships :
           (/\ relationships[i].sourceId = relationships[j].sourceId
            /\ relationships[i].targetId = relationships[j].targetId) => i = j
    /\ \A id \in DOMAIN artifacts :
           artifacts[id].relatedIds.def =>
               \A i, j \in DOMAIN artifacts[id].relatedIds.ids :
                   artifacts[id].relatedIds.ids[i] = artifacts[id].relatedIds.ids[j] => i = j

\* C39: the demo template never replaces saved work: over a storage that held
\* a saved artifact, whatever the order of the storage read, the fallback
\* timer and the auto-demo effect, neither the store in memory nor the
\* document in storage holds the template's artifact in place of the saved one
DemoNeverReplacesSavedWork ==
    /\ TemplateId \in DOMAIN artifacts => "a1" \in DOMAIN artifacts
    /\ storage # NoDocument =>
           (TemplateId \in DOMAIN storage.artifacts => "a1" \in DOMAIN storage.artifacts)

====
